---- MODULE Spec2Model ----
(***************************************************************************)
(* Copper clearance DRC provider (DRC_TEST_PROVIDER_COPPER_CLEARANCE):     *)
(* the pairwise tests of tracks, pads and graphics against each other and  *)
(* against zones, and the zone-versus-zone phase on the thread pool.       *)
(*                                                                         *)
(* Geometry is axis-aligned integer geometry: a trace is a horizontal or   *)
(* vertical segment with a width, a via or pad a circle (a zero-length     *)
(* segment with a width), a zone fill a rectangle.                         *)
(***************************************************************************)
EXTENDS Integers, Sequences, FiniteSets

VARIABLES
    board,        \* ids of the catalogue entries (items and zones) on the board
    cfg,          \* rules and engine settings of the run
    pc,           \* position of Run / of the single-call driver
    reports,      \* sequence of violations passed to reportViolation, in order
    cancelled,    \* the engine's shared cancellation flag (IsCancelled)
    runResult,    \* what Run returned ("none" while it runs)
    idx,          \* position of the phase's item loop (ii, ia)
    lyr,          \* position in the current item's layer sequence (layer_id)
    zi,           \* position in m_DRCCopperZones of the item-versus-zone loop
    cands,        \* candidates the current spatial query has not handed out yet
    checkedPairs, \* testTrackClearances: pair -> layers_checked
    padChecked,   \* testPadClearances: the pairs in its checkedPairs map
    freePads,     \* testTrackClearances: freePadsUsageMap, pad -> net code
    inheritedNet, \* testGraphicClearances: inheritedNet of the current item
    futures,      \* testZonesToZones: the futures, with their tasks' progress
    zcancelled,   \* testZonesToZones: its local flag cancelled
    built,        \* testZonesToZones: the (zone, layer) entries of poly_segments
    testFlags,    \* testZonesToZones: testClearance and testIntersects
    ci,           \* testZonesToZones: position of the collection loop
    call,         \* single-call driver: the call being made
    out,          \* single-call driver: what the call returned and reported
    job,          \* createLayers: the worker loop, its work items and thread count
    nextItem,     \* createLayers: the atomic counter nextZone / nextItem
    threadsFinished, \* createLayers: the atomic counter threadsFinished
    spawned,      \* createLayers: ii, the number of threads started so far
    lpc,          \* createLayers: position of the orchestrating thread
    thr,          \* createLayers: each worker thread's position and areaId
    claimedBy,    \* createLayers: work item -> the threads whose fetch_add gave it
    processed,    \* createLayers: work item -> how often its processing completed
    locks         \* createLayers: the layers whose layer_lock mutex is held

zoneVars == <<futures, zcancelled, built, testFlags, ci>>

runVars == <<runResult, idx, lyr, zi, cands, checkedPairs, padChecked, freePads, inheritedNet,
             zoneVars>>

layerVars == <<job, nextItem, threadsFinished, spawned, lpc, thr, claimedBy, processed, locks>>

drcVars == <<board, cfg, pc, reports, cancelled, call, out, runVars>>

vars == <<drcVars, layerVars>>

\* createLayers is not running: no work items, no threads
LayersIdle ==
    /\ job = [kind |-> "none", n |-> 0, hw |-> 0, threads |-> 0, poly |-> FALSE]
    /\ nextItem = 0
    /\ threadsFinished = 0
    /\ spawned = 0
    /\ lpc = "idle"
    /\ thr = <<>>
    /\ claimedBy = <<>>
    /\ processed = <<>>
    /\ locks = {}

----------------------------------------------------------------------------
(* Small helpers                                                           *)

Max2(a, b) == IF a >= b THEN a ELSE b

Min2(a, b) == IF a <= b THEN a ELSE b

Abs(a) == IF a >= 0 THEN a ELSE -a

Square(a) == a * a

\* (int) sqrt( n ): the integer part of the square root
ISqrt(n) == CHOOSE r \in 0..n : r * r <= n /\ (r + 1) * (r + 1) > n

----------------------------------------------------------------------------
(* Layers, violation kinds, severities                                     *)

F_Cu == "F_Cu"
B_Cu == "B_Cu"

\* for( int layer_id = F_Cu; layer_id <= B_Cu; ++layer_id ), LSET::Seq()
LayerSeq == <<F_Cu, B_Cu>>

Layers == {F_Cu, B_Cu}

DRCE_CLEARANCE == "CLEARANCE"
DRCE_HOLE_CLEARANCE == "HOLE_CLEARANCE"
DRCE_TRACKS_CROSSING == "TRACKS_CROSSING"
DRCE_ZONES_INTERSECT == "ZONES_INTERSECT"
DRCE_SHORTING_ITEMS == "SHORTING_ITEMS"

Kinds == {DRCE_CLEARANCE, DRCE_HOLE_CLEARANCE, DRCE_TRACKS_CROSSING,
          DRCE_ZONES_INTERSECT, DRCE_SHORTING_ITEMS}

RPT_SEVERITY_UNDEFINED == "UNDEFINED"
RPT_SEVERITY_ERROR == "ERROR"
RPT_SEVERITY_IGNORE == "IGNORE"

CLEARANCE_CONSTRAINT == "CLEARANCE_CONSTRAINT"
HOLE_CLEARANCE_CONSTRAINT == "HOLE_CLEARANCE_CONSTRAINT"

----------------------------------------------------------------------------
(* Board items                                                             *)

\* A PCB_TRACK of type PCB_TRACE_T: start, end, width, one layer, a net
Trace(id, net, layer, a, b, w) ==
    [id |-> id, kind |-> "trace", net |-> net, layers |-> {layer}, flash |-> {layer},
     A |-> a, B |-> b, width |-> w, drill |-> 0, fp |-> 0, num |-> 0,
     attr |-> "NA", free |-> FALSE, group |-> -1, knockout |-> FALSE, tieNet |-> -1, isl |-> <<>>]

\* A through PCB_VIA: a circle of copper on every layer and a drill
Via(id, net, p, w, drill) ==
    [id |-> id, kind |-> "via", net |-> net, layers |-> Layers, flash |-> Layers,
     A |-> p, B |-> p, width |-> w, drill |-> drill, fp |-> 0, num |-> 0,
     attr |-> "NA", free |-> FALSE, group |-> -1, knockout |-> FALSE, tieNet |-> -1, isl |-> <<>>]

\* A round PAD of footprint fp with pad number num; flash is the set of
\* layers on which FlashLayer() is true; group is the pad's net-tie group
Pad(id, net, lys, flash, p, w, drill, fp, num, attr, free, group) ==
    [id |-> id, kind |-> "pad", net |-> net, layers |-> lys, flash |-> flash,
     A |-> p, B |-> p, width |-> w, drill |-> drill, fp |-> fp, num |-> num,
     attr |-> attr, free |-> free, group |-> group, knockout |-> FALSE, tieNet |-> -1, isl |-> <<>>]

\* A copper graphic (PCB_SHAPE / FP_SHAPE, kind "shape") or text (kind
\* "text"); tieNet is the net whose items the net-tie exclusion lets touch it
Graphic(id, kind, layer, a, b, w, fp, knockout, tieNet) ==
    [id |-> id, kind |-> kind, net |-> 0, layers |-> {layer}, flash |-> {layer},
     A |-> a, B |-> b, width |-> w, drill |-> 0, fp |-> fp, num |-> 0,
     attr |-> "NA", free |-> FALSE, group |-> -1, knockout |-> knockout, tieNet |-> tieNet, isl |-> <<>>]

\* A copper ZONE: a rectangular fill lo..hi on each of its layers
Zone(id, net, lys, lo, hi) ==
    [id |-> id, kind |-> "zone", net |-> net, layers |-> lys, flash |-> lys,
     A |-> lo, B |-> hi, width |-> 0, drill |-> 0, fp |-> 0, num |-> 0,
     attr |-> "NA", free |-> FALSE, group |-> -1, knockout |-> FALSE, tieNet |-> -1, isl |-> <<>>]

\* A copper ZONE whose fill on each of its layers has two islands: the
\* rectangle lo..hi and, to its right, the rectangle lo2..hi2
ZoneIslands(id, net, lys, lo, hi, lo2, hi2) ==
    [Zone(id, net, lys, lo, hi) EXCEPT !.isl = <<lo2, hi2>>]

\* dynamic_cast<PCB_TRACK*>( item ): traces and vias
IsTrack(it) == it.kind \in {"trace", "via"}

\* dynamic_cast<BOARD_CONNECTED_ITEM*>( item ), BOARD_ITEM::IsConnected()
IsConnected(it) == it.kind \in {"trace", "via", "pad", "zone"}

\* BOARD_ITEM::HasHole(): a via always, a pad with a drill
HasHole(it) == it.kind = "via" \/ (it.kind = "pad" /\ it.drill > 0)

\* PAD::FlashLayer( layer )
FlashLayer(it, layer) == layer \in it.flash

\* PAD::SameLogicalPadAs( other ): same footprint, same pad number
SameLogicalPadAs(p, q) == p.fp = q.fp /\ p.num = q.num

\* BOARD_ITEM::GetParent() of the two items is the same footprint
SameParent(p, q) == p.fp # 0 /\ p.fp = q.fp

----------------------------------------------------------------------------
(* Geometry primitives                                                     *)

\* Extent of a segment or rectangle given by two corners
LoX(a, b) == Min2(a[1], b[1])
HiX(a, b) == Max2(a[1], b[1])
LoY(a, b) == Min2(a[2], b[2])
HiY(a, b) == Max2(a[2], b[2])

\* gap between the intervals lo1..hi1 and lo2..hi2 (0 when they overlap)
Gap(lo1, hi1, lo2, hi2) == Max2(0, Max2(lo1 - hi2, lo2 - hi1))

\* SEG::SquaredDistance for axis-aligned segments (and for a segment
\* against a filled rectangle): squared distance of the two extents
SquaredDistance(a1, b1, a2, b2) ==
    Square(Gap(LoX(a1, b1), HiX(a1, b1), LoX(a2, b2), HiX(a2, b2)))
  + Square(Gap(LoY(a1, b1), HiY(a1, b1), LoY(a2, b2), HiY(a2, b2)))

Cross(u, v) == u[1] * v[2] - u[2] * v[1]

\* SEG::Intersect( aSeg ): whether the two segments have a single common
\* point; parallel and collinear segments (d = 0) have none
Intersect(a1, b1, a2, b2) ==
    LET e == <<b1[1] - a1[1], b1[2] - a1[2]>>
        f == <<b2[1] - a2[1], b2[2] - a2[2]>>
        ac == <<a2[1] - a1[1], a2[2] - a1[2]>>
        d == Cross(f, e)
        p == Cross(f, ac)
        q == Cross(e, ac)
    IN  /\ d # 0
        /\ ~(d > 0 /\ (q < 0 \/ q > d \/ p < 0 \/ p > d))
        /\ ~(d < 0 /\ (q < d \/ p < d \/ p > 0 \/ q > 0))

\* A shape: centre line (or rectangle) a..b and the half width around it
Shape(a, b, w) == [A |-> a, B |-> b, hw |-> w \div 2]

\* BOARD_ITEM::GetEffectiveShape( layer )
GetEffectiveShape(it) == Shape(it.A, it.B, it.width)

\* BOARD_ITEM::GetEffectiveHoleShape(): the drill at the item's position
GetEffectiveHoleShape(it) == Shape(it.A, it.A, it.drill)

\* SHAPE::Collide( other, minClearance, &actual ): the shapes collide when
\* their separation is below minClearance, or when their centre lines touch
Collide(s, t, minClearance) ==
    LET dsq == SquaredDistance(s.A, s.B, t.A, t.B)
        minDist == s.hw + t.hw + minClearance
    IN  dsq = 0 \/ (minDist > 0 /\ dsq < Square(minDist))

\* the actual distance Collide hands back
Actual(s, t) ==
    Max2(0, ISqrt(SquaredDistance(s.A, s.B, t.A, t.B)) - s.hw - t.hw)

\* BOX2I of an item, BOX2I::Inflate, BOX2I::Intersects
GetBoundingBox(it) ==
    LET hw == it.width \div 2
        C == IF it.isl = <<>> THEN it.A ELSE it.isl[1]
        D == IF it.isl = <<>> THEN it.B ELSE it.isl[2]
    IN  [lox |-> Min2(LoX(it.A, it.B), LoX(C, D)) - hw,
         hix |-> Max2(HiX(it.A, it.B), HiX(C, D)) + hw,
         loy |-> Min2(LoY(it.A, it.B), LoY(C, D)) - hw,
         hiy |-> Max2(HiY(it.A, it.B), HiY(C, D)) + hw]

Inflate(bb, d) ==
    [lox |-> bb.lox - d, hix |-> bb.hix + d, loy |-> bb.loy - d, hiy |-> bb.hiy + d]

Intersects(b1, b2) ==
    /\ b1.lox <= b2.hix /\ b2.lox <= b1.hix
    /\ b1.loy <= b2.hiy /\ b2.loy <= b1.hiy

----------------------------------------------------------------------------
(* Engine services the provider consumes                                   *)

\* number of violations of kind k reported so far
CountKind(rep, k) == Cardinality({i \in 1..Len(rep) : rep[i].kind = k})

\* DRC_ENGINE::IsErrorLimitExceeded( kind ): each reported violation uses
\* up one of the kind's allowance c.limit[k]; a negative allowance is none
IsErrorLimitExceeded(k, rep, c) ==
    c.limit[k] >= 0 /\ CountKind(rep, k) >= c.limit[k]

\* DRC_ENGINE::EvalRules( kind, a, b, layer ): the resolved minimum value
\* and the severity of the rule it came from
EvalRules(kind, a, b, layer, c) ==
    IF kind = CLEARANCE_CONSTRAINT
    THEN [value |-> c.clr, sev |-> c.clrSev]
    ELSE [value |-> c.hole, sev |-> c.holeSev]

\* a default-constructed DRC_CONSTRAINT: no parent rule, no severity
NoConstraint == [value |-> -1, sev |-> RPT_SEVERITY_UNDEFINED]

\* BOARD::m_DRCMaxClearance: the largest clearance any rule can resolve to
DRCMaxClearance(c) == Max2(c.clr, c.hole)

\* DRC_ENGINE::IsNetTieExclusion( net, layer, pos, other ): the collision
\* lies on a net-tie footprint's graphic that the net's pad may touch
IsNetTieExclusion(net, other) == other.tieNet >= 0 /\ other.tieNet = net

\* DRC_ITEM::Create( kind ) with SetItems( a, b ), as reportViolation gets
\* it: kind, the two items, the layer, the actual and the required distance
Violation(kind, a, b, layer, actual, required) ==
    [kind |-> kind, a |-> a.id, b |-> b.id, layer |-> layer,
     actual |-> actual, required |-> required]

\* what a test routine did: the violations it reported, in order, and the
\* value it returned
Done(viol, ret) == [viol |-> viol, ret |-> ret]

----------------------------------------------------------------------------
(* testTrackAgainstItem                                                    *)

\* the first operand of the track:track intersection test
TrackSeg(track, other) == <<track.A, track.B>>

\* the second operand, as the source builds it: from the track itself
OtherSeg(track, other) == <<track.A, track.B>>

\* the epsilon added to the clearance budget instead of subtracted
TrackThresholdAdded(clearance, eps) == clearance + eps

\* the subtraction with its operands exchanged
TrackThresholdSwapped(clearance, eps) == eps - clearance

\* the threshold of the track's copper collision test
TrackThreshold(clearance, eps) == clearance - eps

\* the threshold of every hole collision test
HoleThreshold(clearance, eps) == Max2(0, clearance - eps)

\* one pass of the hole loop: a's copper against b's hole
TrackHoleTest(a, b, layer, c) ==
    IF ~IsTrack(a) \/ ~HasHole(b)
    THEN <<>>
    ELSE LET constraint == EvalRules(HOLE_CLEARANCE_CONSTRAINT, b, a, layer, c)
             clearance == constraint.value
             holeShape == GetEffectiveHoleShape(b)
         IN  IF /\ constraint.sev # RPT_SEVERITY_IGNORE
                /\ Collide(GetEffectiveShape(a), holeShape, HoleThreshold(clearance, c.eps))
             THEN <<Violation(DRCE_HOLE_CLEARANCE, a, b, layer,
                              Actual(GetEffectiveShape(a), holeShape), clearance)>>
             ELSE <<>>

\* a hole part that forgets has_error when no hole violation is found
TrackHolesForgetsError(track, layer, other, c, testHoles, before, has_error) ==
    IF testHoles /\ (HasHole(track) \/ HasHole(other))
    THEN LET first == TrackHoleTest(track, other, layer, c)
             second == TrackHoleTest(other, track, layer, c)
         IN  IF first # <<>> THEN Done(before \o first, FALSE)
             ELSE IF second # <<>> THEN Done(before \o second, FALSE)
             ELSE Done(before, TRUE)
    ELSE Done(before, TRUE)

\* the hole part of testTrackAgainstItem, after the copper part reported
\* `before` and set has_error
TrackHoles(track, layer, other, c, testHoles, before, has_error) ==
    IF testHoles /\ (HasHole(track) \/ HasHole(other))
    THEN LET first == TrackHoleTest(track, other, layer, c)
             second == TrackHoleTest(other, track, layer, c)
         IN  IF first # <<>> THEN Done(before \o first, FALSE)
             ELSE IF second # <<>> THEN Done(before \o second, FALSE)
             ELSE Done(before, ~has_error)
    ELSE Done(before, ~has_error)

testTrackAgainstItem(track, layer, other, rep, c) ==
    LET testHoles == ~IsErrorLimitExceeded(DRCE_HOLE_CLEARANCE, rep, c)
        testClearance ==
            /\ ~IsErrorLimitExceeded(DRCE_CLEARANCE, rep, c)
            /\ ~(other.kind = "pad" /\ other.attr = "NPTH" /\ ~FlashLayer(other, layer))
        constraint == IF testClearance
                      THEN EvalRules(CLEARANCE_CONSTRAINT, track, other, layer, c)
                      ELSE NoConstraint
        clearance == IF testClearance THEN constraint.value ELSE -1
        trackShape == GetEffectiveShape(track)
        otherShape == GetEffectiveShape(other)
        trackSeg == TrackSeg(track, other)
        otherSeg == OtherSeg(track, other)
    IN  IF constraint.sev # RPT_SEVERITY_IGNORE /\ clearance > 0
        THEN IF /\ track.kind = "trace" /\ other.kind = "trace"
                /\ Intersect(trackSeg[1], trackSeg[2], otherSeg[1], otherSeg[2])
             THEN Done(<<Violation(DRCE_TRACKS_CROSSING, track, other, layer, 0, clearance)>>,
                       FALSE)
             ELSE IF Collide(trackShape, otherShape, TrackThreshold(clearance, c.eps))
             THEN IF IsNetTieExclusion(track.net, other)
                  THEN TrackHoles(track, layer, other, c, testHoles, <<>>, FALSE)
                  ELSE LET drce == Violation(DRCE_CLEARANCE, track, other, layer,
                                             Actual(trackShape, otherShape), clearance)
                       IN  IF ~c.reportAll
                           THEN Done(<<drce>>, FALSE)
                           ELSE TrackHoles(track, layer, other, c, testHoles, <<drce>>, TRUE)
             ELSE TrackHoles(track, layer, other, c, testHoles, <<>>, FALSE)
        ELSE TrackHoles(track, layer, other, c, testHoles, <<>>, FALSE)

----------------------------------------------------------------------------
(* testItemAgainstZone, testKnockoutTextAgainstZone                        *)

\* the zone's filled area on a layer, as its cached R-tree holds it: the
\* island of the fill that is nearest to the shape
ZoneFill(zone, shape) ==
    LET first == [A |-> zone.A, B |-> zone.B, hw |-> 0]
        second == [A |-> zone.isl[1], B |-> zone.isl[2], hw |-> 0]
    IN  IF zone.isl = <<>> THEN first
        ELSE IF SquaredDistance(shape.A, shape.B, second.A, second.B)
                    < SquaredDistance(shape.A, shape.B, first.A, first.B)
        THEN second ELSE first

\* DRC_RTREE::QueryColliding( box, shape, layer, clearance, &actual, &pos )
\* on the zone's own tree: the shape is within clearance of the fill
ZoneQueryColliding(zone, shape, clearance) ==
    Collide(shape, ZoneFill(zone, shape), clearance)

\* the bounding-box pre-filter of the item-versus-zone tests
WorstCaseBBoxHits(item, zone, c) ==
    Intersects(Inflate(GetBoundingBox(item), DRCMaxClearance(c)), GetBoundingBox(zone))

\* the copper part of testItemAgainstZone
ItemZoneCopper(aItem, aZone, aLayer, c, testClearance) ==
    LET constraint == IF testClearance
                      THEN EvalRules(CLEARANCE_CONSTRAINT, aItem, aZone, aLayer, c)
                      ELSE NoConstraint
        clearance == IF testClearance THEN constraint.value ELSE -1
        itemShape == GetEffectiveShape(aItem)
    IN  IF /\ constraint.sev # RPT_SEVERITY_IGNORE
           /\ clearance > 0
           /\ ZoneQueryColliding(aZone, itemShape, Max2(0, clearance - c.eps))
        THEN <<Violation(DRCE_CLEARANCE, aItem, aZone, aLayer,
                         Actual(itemShape, ZoneFill(aZone, itemShape)), clearance)>>
        ELSE <<>>

\* a guard that does not look at the severity of the rule
ItemZoneHoleGuardAnySeverity(constraint, clearance) == clearance > 0

\* the guard of the hole collision test of testItemAgainstZone
ItemZoneHoleGuard(constraint, clearance) ==
    constraint.sev # RPT_SEVERITY_IGNORE /\ clearance > 0

\* the hole part of testItemAgainstZone
ItemZoneHole(aItem, aZone, aLayer, c, testHoles) ==
    IF testHoles /\ HasHole(aItem) /\ (aItem.kind # "via" \/ aLayer \in aItem.layers)
    THEN LET constraint == EvalRules(HOLE_CLEARANCE_CONSTRAINT, aItem, aZone, aLayer, c)
             clearance == constraint.value
             holeShape == GetEffectiveHoleShape(aItem)
         IN  IF /\ ItemZoneHoleGuard(constraint, clearance)
                /\ ZoneQueryColliding(aZone, holeShape, Max2(0, clearance - c.eps))
             THEN <<Violation(DRCE_HOLE_CLEARANCE, aItem, aZone, aLayer,
                              Actual(holeShape, ZoneFill(aZone, holeShape)), clearance)>>
             ELSE <<>>
    ELSE <<>>

\* the same-net waiver of testItemAgainstZone
ItemZoneSameNet(aItem, aZone) ==
    aZone.net # 0 /\ IsConnected(aItem) /\ aZone.net = aItem.net

testItemAgainstZone(aItem, aZone, aLayer, rep, c) ==
    LET testClearance0 == ~IsErrorLimitExceeded(DRCE_CLEARANCE, rep, c)
        testHoles == ~IsErrorLimitExceeded(DRCE_HOLE_CLEARANCE, rep, c)
        flashedPad == FlashLayer(aItem, aLayer)
        platedHole == HasHole(aItem) /\ aItem.attr = "PTH"
        testClearance ==
            testClearance0 /\ ~(aItem.kind = "pad" /\ ~flashedPad /\ ~platedHole)
    IN  IF aLayer \notin aZone.layers THEN Done(<<>>, TRUE)
        ELSE IF ItemZoneSameNet(aItem, aZone) THEN Done(<<>>, TRUE)
        ELSE IF ~WorstCaseBBoxHits(aItem, aZone, c) THEN Done(<<>>, TRUE)
        ELSE IF ~testClearance0 /\ ~testHoles THEN Done(<<>>, TRUE)
        ELSE Done(ItemZoneCopper(aItem, aZone, aLayer, c, testClearance)
                  \o ItemZoneHole(aItem, aZone, aLayer, c, testHoles), TRUE)

\* testKnockoutTextAgainstZone( aText, &inheritedNet, aZone ): inherited
\* is the net inherited so far (-1 for nullptr); the result carries the
\* net inherited after the call
testKnockoutTextAgainstZone(aText, inherited, aZone, rep, c) ==
    LET testClearance == ~IsErrorLimitExceeded(DRCE_CLEARANCE, rep, c)
        testShorts == ~IsErrorLimitExceeded(DRCE_SHORTING_ITEMS, rep, c)
        layer == CHOOSE l \in aText.layers : TRUE
        itemShape == GetEffectiveShape(aText)
        inh == IF inherited = -1 /\ ZoneQueryColliding(aZone, itemShape, 0)
               THEN aZone.net ELSE inherited
        constraint == EvalRules(CLEARANCE_CONSTRAINT, aText, aZone, layer, c)
        clearance == constraint.value
        actual == Actual(itemShape, ZoneFill(aZone, itemShape))
    IN  IF ~testClearance /\ ~testShorts THEN [viol |-> <<>>, ret |-> TRUE, net |-> inherited]
        ELSE IF layer \notin aZone.layers THEN [viol |-> <<>>, ret |-> TRUE, net |-> inherited]
        ELSE IF ~WorstCaseBBoxHits(aText, aZone, c)
        THEN [viol |-> <<>>, ret |-> TRUE, net |-> inherited]
        ELSE IF inh = aZone.net THEN [viol |-> <<>>, ret |-> TRUE, net |-> inh]
        ELSE IF /\ constraint.sev # RPT_SEVERITY_IGNORE
                /\ clearance >= 0
                /\ ZoneQueryColliding(aZone, itemShape, Max2(0, clearance - c.eps))
        THEN [viol |-> <<Violation(IF testShorts /\ actual = 0 /\ inh # -1
                                   THEN DRCE_SHORTING_ITEMS ELSE DRCE_CLEARANCE,
                                   aText, aZone, layer, actual, clearance)>>,
              ret |-> TRUE, net |-> inh]
        ELSE [viol |-> <<>>, ret |-> TRUE, net |-> inh]

----------------------------------------------------------------------------
(* testPadAgainstItem                                                      *)

\* the guard of each hole collision test of testPadAgainstItem
PadHoleGuard(clearance) == clearance > 0

\* one hole collision test of testPadAgainstItem: copper against hole
PadHoleTest(pad, other, aLayer, c, copper, hole, clearance) ==
    IF PadHoleGuard(clearance) /\ Collide(copper, hole, Max2(0, clearance - c.eps))
    THEN <<Violation(DRCE_HOLE_CLEARANCE, pad, other, aLayer, Actual(copper, hole), clearance)>>
    ELSE <<>>

\* the hole part of testPadAgainstItem (from "if( testHoles )" on)
PadHoles(pad, aLayer, other, c, testHoles0) ==
    LET constraint == EvalRules(HOLE_CLEARANCE_CONSTRAINT, pad, other, aLayer, c)
        clearance == constraint.value
        testHoles1 == testHoles0 /\ constraint.sev # RPT_SEVERITY_IGNORE
        otherPad == other.kind = "pad"
        otherVia == other.kind = "via"
        v1 == IF testHoles1 /\ otherPad /\ FlashLayer(pad, aLayer) /\ HasHole(other)
              THEN PadHoleTest(pad, other, aLayer, c, GetEffectiveShape(pad),
                               GetEffectiveHoleShape(other), clearance)
              ELSE <<>>
        testHoles2 == testHoles1 /\ v1 = <<>>
        v2 == IF testHoles2 /\ otherPad /\ FlashLayer(other, aLayer) /\ HasHole(pad)
              THEN PadHoleTest(pad, other, aLayer, c, GetEffectiveShape(other),
                               GetEffectiveHoleShape(pad), clearance)
              ELSE <<>>
        testHoles3 == testHoles2 /\ v2 = <<>>
        v3 == IF testHoles3 /\ otherVia /\ aLayer \in other.layers
              THEN PadHoleTest(pad, other, aLayer, c, GetEffectiveShape(pad),
                               GetEffectiveHoleShape(other), clearance)
              ELSE <<>>
    IN  v1 \o v2 \o v3

\* the copper part of testPadAgainstItem
PadCopper(pad, aLayer, other, c) ==
    LET constraint == EvalRules(CLEARANCE_CONSTRAINT, pad, other, aLayer, c)
        clearance == constraint.value
        padShape == GetEffectiveShape(pad)
        otherShape == GetEffectiveShape(other)
    IN  IF /\ constraint.sev # RPT_SEVERITY_IGNORE
           /\ clearance > 0
           /\ Collide(padShape, otherShape, Max2(0, clearance - c.eps))
           /\ ~IsNetTieExclusion(pad.net, other)
        THEN <<Violation(DRCE_CLEARANCE, pad, other, aLayer,
                         Actual(padShape, otherShape), clearance)>>
        ELSE <<>>

\* "Pads and vias of the same (defined) net get a waiver"
PadSameNetWaiver(pad, other) ==
    LET padNet == pad.net
        otherPadNet == IF other.kind = "pad" THEN other.net ELSE 0
        otherViaNet == IF other.kind = "via" THEN other.net ELSE 0
    IN  (otherPadNet # 0 /\ otherPadNet = padNet) \/ (otherViaNet # 0 /\ otherViaNet = padNet)

\* the same-logical-pad branch without its shorting report and its return:
\* the pair falls through to nothing
PadSameLogicalSilent(pad, aLayer, other, testShorting, isCancelled) ==
    Done(<<>>, ~isCancelled)

\* the branch taken for two pads that are the same logical pad
PadSameLogical(pad, aLayer, other, testShorting, isCancelled) ==
    IF pad.net # 0 /\ other.net # 0 /\ pad.net # other.net /\ testShorting
    THEN Done(<<Violation(DRCE_SHORTING_ITEMS, pad, other, aLayer, 0, 0)>>, ~isCancelled)
    ELSE Done(<<>>, ~isCancelled)

testPadAgainstItem(pad, aLayer, other, rep, c, isCancelled) ==
    LET otherPad == other.kind = "pad"
        otherVia == other.kind = "via"
        sameParent == SameParent(other, pad)
        padGroupIdx == pad.group
        testShorting == ~IsErrorLimitExceeded(DRCE_SHORTING_ITEMS, rep, c)
        testClearance ==
            /\ ~IsErrorLimitExceeded(DRCE_CLEARANCE, rep, c)
            /\ ~(sameParent /\ otherPad /\ padGroupIdx >= 0 /\ padGroupIdx = other.group)
            /\ ~(sameParent /\ other.kind = "shape" /\ padGroupIdx >= 0)
            /\ ~(pad.attr = "NPTH" /\ ~FlashLayer(pad, aLayer))
            /\ ~(otherPad /\ other.attr = "NPTH" /\ ~FlashLayer(other, aLayer))
            /\ ~IsTrack(other)
            /\ ~PadSameNetWaiver(pad, other)
        testHoles ==
            /\ ~IsErrorLimitExceeded(DRCE_HOLE_CLEARANCE, rep, c)
            /\ ~(sameParent /\ otherPad /\ SameLogicalPadAs(pad, other))
            /\ ~PadSameNetWaiver(pad, other)
            /\ (pad.drill > 0 \/ (otherPad /\ other.drill > 0) \/ (otherVia /\ other.drill > 0))
        copper == IF testClearance THEN PadCopper(pad, aLayer, other, c) ELSE <<>>
    IN  IF ~testClearance /\ ~testShorting /\ ~testHoles THEN Done(<<>>, FALSE)
        ELSE IF otherPad /\ SameLogicalPadAs(pad, other)
        THEN PadSameLogical(pad, aLayer, other, testShorting, isCancelled)
        ELSE IF copper # <<>> THEN Done(copper, ~isCancelled)
        ELSE IF testHoles THEN Done(PadHoles(pad, aLayer, other, c, TRUE), ~isCancelled)
        ELSE Done(<<>>, ~isCancelled)

----------------------------------------------------------------------------
(* Rules and engine settings                                               *)

\* largest DRC epsilon tried
MaxEps == 2

\* largest centre-to-centre offset tried in the single-call driver
MaxDist == 25

\* limit[k]: violations of kind k the engine still accepts; -1 is no limit
NoLimit == [k \in Kinds |-> -1]

LimitAt(k, n) == [NoLimit EXCEPT ![k] = n]

Rule(clr, hole, clrSev, holeSev) ==
    [clr |-> clr, hole |-> hole, clrSev |-> clrSev, holeSev |-> holeSev]

\* the rule sets tried: (clearance, hole clearance) values and severities
RuleSets ==
    {Rule(3, 2, RPT_SEVERITY_ERROR, RPT_SEVERITY_ERROR),
     Rule(10, 2, RPT_SEVERITY_ERROR, RPT_SEVERITY_ERROR),
     Rule(3, 0, RPT_SEVERITY_ERROR, RPT_SEVERITY_ERROR),
     Rule(0, 2, RPT_SEVERITY_ERROR, RPT_SEVERITY_ERROR),
     Rule(3, 2, RPT_SEVERITY_IGNORE, RPT_SEVERITY_ERROR),
     Rule(3, 2, RPT_SEVERITY_ERROR, RPT_SEVERITY_IGNORE)}

Cfg(rule, eps, reportAll, limit) ==
    [clr |-> rule.clr, hole |-> rule.hole, clrSev |-> rule.clrSev,
     holeSev |-> rule.holeSev, eps |-> eps, reportAll |-> reportAll, limit |-> limit]

\* a configuration that stands for "not used" in the other driver
NoCfg == Cfg(Rule(0, 0, RPT_SEVERITY_ERROR, RPT_SEVERITY_ERROR), 0, FALSE, NoLimit)

----------------------------------------------------------------------------
(* Single-call driver: one call of a test routine on drawn arguments       *)

CallLimits ==
    {NoLimit, LimitAt(DRCE_CLEARANCE, 0), LimitAt(DRCE_HOLE_CLEARANCE, 0),
     LimitAt(DRCE_SHORTING_ITEMS, 0)}

CallConfigs ==
    {Cfg(r, e, ra, NoLimit) : r \in RuleSets, e \in 0..MaxEps, ra \in BOOLEAN}
    \cup {Cfg(r, 0, FALSE, l) : r \in RuleSets, l \in CallLimits}

Widths == {2, 10}

\* the reference trace of the single-call driver: y = 0, x in 0..20
RefTrace(w) == Trace(1, 1, F_Cu, <<0, 0>>, <<20, 0>>, w)

\* what a track is tested against, by shape: a parallel trace at offset
\* d, a perpendicular trace centred d above the reference's centre line (it
\* crosses it when d <= 5), a via and a drilled pad at offset d, and a
\* graphic of a net-tie footprint that the reference's net may touch
TrackOther(shape, n, d, w) ==
    CASE shape = "parallel" -> Trace(2, n, F_Cu, <<0, d>>, <<20, d>>, w)
      [] shape = "crossing" -> Trace(2, n, F_Cu, <<10, d - 5>>, <<10, d + 5>>, w)
      [] shape = "via" -> Via(2, n, <<10, d>>, w, 2)
      [] shape = "pad" -> Pad(2, n, Layers, Layers, <<10, d>>, w, 2, 1, 1, "PTH", FALSE, -1)
      [] shape = "tie" -> Graphic(2, "shape", F_Cu, <<0, d>>, <<20, d>>, w, 1, FALSE, n)

TrackShapes == {"parallel", "crossing", "via", "pad", "tie"}

\* largest offset tried between a pad or item and what it is tested against
MaxPadDist == 8

\* the reference pad of the single-call driver: footprint 1, number 1, at
\* the origin, copper on both layers, with or without a drill
RefPad(net, drill) ==
    Pad(1, net, Layers, Layers, <<0, 0>>, 4, drill, 1, 1,
        IF drill > 0 THEN "PTH" ELSE "SMD", FALSE, -1)

\* what a pad is tested against, by shape: a pad of footprint fp with the
\* reference's number ("pad") or another ("pad2"), a via, a trace and a
\* graphic of footprint fp, d away
PadOther(shape, n, d, dr, fp) ==
    CASE shape = "pad" -> Pad(2, n, Layers, Layers, <<d, 0>>, 4, dr, fp, 1,
                              IF dr > 0 THEN "PTH" ELSE "SMD", FALSE, -1)
      [] shape = "pad2" -> Pad(2, n, Layers, Layers, <<d, 0>>, 4, dr, fp, 2,
                               IF dr > 0 THEN "PTH" ELSE "SMD", FALSE, -1)
      [] shape = "via" -> Via(2, n, <<d, 0>>, 4, 2)
      [] shape = "trace" -> Trace(2, n, F_Cu, <<d, -5>>, <<d, 5>>, 2)
      [] shape = "shape" -> Graphic(2, "shape", F_Cu, <<d, -5>>, <<d, 5>>, 2, fp, FALSE, -1)

PadShapes == {"pad", "pad2", "via", "trace", "shape"}

\* the zone of the single-call driver: the fill x in 10..20, y in -10..10
RefZone(net, lys) == Zone(2, net, lys, <<10, -10>>, <<20, 10>>)

\* what is tested against the zone, by shape: a trace, a via, a drilled
\* pad (plated and flashed, or a bare non-plated hole) and a graphic whose
\* centre is d short of the zone's edge (d = 0: on the edge)
ZoneItem(shape, n, d) ==
    CASE shape = "trace" -> Trace(1, n, F_Cu, <<10 - d, -5>>, <<10 - d, 5>>, 2)
      [] shape = "via" -> Via(1, n, <<10 - d, 0>>, 4, 2)
      [] shape = "pad" -> Pad(1, n, Layers, Layers, <<10 - d, 0>>, 4, 2, 1, 1, "PTH", FALSE, -1)
      [] shape = "npth" -> Pad(1, n, Layers, {}, <<10 - d, 0>>, 4, 2, 1, 1, "NPTH", FALSE, -1)
      [] shape = "shape" -> Graphic(1, "shape", F_Cu, <<10 - d, -5>>, <<10 - d, 5>>, 2, 0,
                                    FALSE, -1)

ZoneShapes == {"trace", "via", "pad", "npth", "shape"}

Call(fn, a, b, c) == [fn |-> fn, a |-> a, b |-> b, layer |-> F_Cu, c |-> c]

InitCall ==
    /\ \/ \E w \in Widths, sh \in TrackShapes, n \in 1..2, d \in 0..MaxDist, c \in CallConfigs :
             call = Call("track", RefTrace(w), TrackOther(sh, n, d, w), c)
       \/ \E sh \in PadShapes, n \in 0..2, m \in 0..1, d \in 0..MaxPadDist, dr \in {0, 2},
             dr2 \in {0, 2}, fp \in 1..2, c \in CallConfigs :
             call = Call("pad", RefPad(m, dr2), PadOther(sh, n, d, dr, fp), c)
       \/ \E sh \in ZoneShapes, n \in 0..1, z \in 0..2, d \in 0..MaxPadDist,
             lys \in {{F_Cu}, {B_Cu}}, c \in CallConfigs :
             call = Call("zone", ZoneItem(sh, n, d), RefZone(z, lys), c)
    /\ out = Done(<<>>, TRUE)
    /\ LayersIdle
    /\ pc = "call"
    /\ board = {}
    /\ cfg = NoCfg
    /\ reports = <<>>
    /\ cancelled = FALSE
    /\ runResult = "none"
    /\ idx = 0 /\ lyr = 0 /\ zi = 0
    /\ cands = {}
    /\ checkedPairs = <<>>
    /\ padChecked = {}
    /\ freePads = <<>>
    /\ inheritedNet = -1
    /\ futures = <<>>
    /\ zcancelled = FALSE
    /\ built = {}
    /\ testFlags = [testClearance |-> FALSE, testIntersects |-> FALSE]
    /\ ci = 0

CallTrack ==
    /\ pc = "call" /\ call.fn = "track"
    /\ out' = testTrackAgainstItem(call.a, call.layer, call.b, <<>>, call.c)
    /\ pc' = "ret"
    /\ UNCHANGED <<layerVars, board, cfg, reports, cancelled, call, runVars>>

CallPad ==
    /\ pc = "call" /\ call.fn = "pad"
    /\ out' = testPadAgainstItem(call.a, call.layer, call.b, <<>>, call.c, FALSE)
    /\ pc' = "ret"
    /\ UNCHANGED <<layerVars, board, cfg, reports, cancelled, call, runVars>>

CallZone ==
    /\ pc = "call" /\ call.fn = "zone"
    /\ out' = testItemAgainstZone(call.a, call.b, call.layer, <<>>, call.c)
    /\ pc' = "ret"
    /\ UNCHANGED <<layerVars, board, cfg, reports, cancelled, call, runVars>>

NextCall == CallTrack \/ CallPad \/ CallZone

SpecCall == InitCall /\ [][NextCall]_vars

\* the kinds reported by the call that returned
OutKinds == {out.viol[i].kind : i \in 1..Len(out.viol)}

----------------------------------------------------------------------------
(* The boards of the full run                                              *)

\* most items and zones on a board
MaxItems == 3

\* The catalogue the boards are drawn from, by id.
\*   1..7   tracks: traces of nets 1..3 on F_Cu and B_Cu, a via, a free pad
\*   11..18 pads of two footprints, a via and a footprint graphic; a
\*          non-plated pad with copper on B_Cu only, and a short trace in
\*          the neighbourhood of pad 12
\*   21..28 zones of nets 1..3, a trace, a knockout text, a graphic and a
\*          via
\*   31..33 the traces 10 wide of the parallel-trace scenario
\*   50..53 zones on F_Cu: a zone of two islands, a zone of another net
\*          between the islands, 2 from the left one (with a lower and
\*          with a higher id), and a third zone 2 to the right of that
\*   41..45 traces of nets 2 and 1 touching the free pad 7, two traces
\*          without a net (net code 0) 1 apart, and a non-plated hole
\*          without copper next to trace 1
Item(id) ==
    CASE id = 1 -> Trace(1, 1, F_Cu, <<0, 0>>, <<20, 0>>, 2)
      [] id = 2 -> Via(2, 2, <<10, 1>>, 4, 2)
      [] id = 3 -> Trace(3, 2, F_Cu, <<0, 4>>, <<20, 4>>, 2)
      [] id = 4 -> Trace(4, 2, F_Cu, <<10, -5>>, <<10, 5>>, 2)
      [] id = 5 -> Trace(5, 1, F_Cu, <<0, -3>>, <<20, -3>>, 2)
      [] id = 6 -> Trace(6, 3, B_Cu, <<0, 1>>, <<20, 1>>, 2)
      [] id = 7 -> Pad(7, 9, {F_Cu}, {F_Cu}, <<21, 0>>, 4, 0, 1, 1, "SMD", TRUE, -1)
      [] id = 11 -> Pad(11, 1, Layers, Layers, <<0, 0>>, 4, 2, 1, 1, "PTH", FALSE, -1)
      [] id = 12 -> Pad(12, 2, {F_Cu}, {F_Cu}, <<3, 0>>, 4, 0, 1, 1, "SMD", FALSE, -1)
      [] id = 13 -> Pad(13, 2, Layers, Layers, <<6, 0>>, 4, 2, 2, 1, "PTH", FALSE, -1)
      [] id = 14 -> Pad(14, 1, {F_Cu}, {F_Cu}, <<0, 5>>, 4, 0, 2, 2, "SMD", FALSE, -1)
      [] id = 15 -> Via(15, 2, <<2, 0>>, 4, 2)
      [] id = 16 -> Graphic(16, "shape", F_Cu, <<6, 3>>, <<10, 3>>, 2, 2, FALSE, -1)
      [] id = 17 -> Pad(17, 1, Layers, {B_Cu}, <<0, 0>>, 4, 2, 3, 1, "NPTH", FALSE, -1)
      [] id = 18 -> Trace(18, 3, F_Cu, <<7, -5>>, <<8, -5>>, 2)
      [] id = 21 -> Zone(21, 1, Layers, <<0, 0>>, <<10, 10>>)
      [] id = 22 -> Zone(22, 2, Layers, <<5, 5>>, <<15, 15>>)
      [] id = 23 -> Zone(23, 3, {F_Cu}, <<8, 1>>, <<18, 4>>)
      [] id = 24 -> Zone(24, 2, {F_Cu}, <<3, 3>>, <<7, 7>>)
      [] id = 25 -> Trace(25, 2, F_Cu, <<12, 0>>, <<12, 4>>, 2)
      [] id = 26 -> Graphic(26, "text", F_Cu, <<6, 6>>, <<8, 6>>, 2, 0, TRUE, -1)
      [] id = 27 -> Graphic(27, "shape", F_Cu, <<12, 2>>, <<14, 2>>, 2, 0, FALSE, -1)
      [] id = 28 -> Via(28, 2, <<2, 2>>, 4, 2)
      [] id = 31 -> Trace(31, 1, F_Cu, <<0, 0>>, <<40, 0>>, 10)
      [] id = 32 -> Trace(32, 2, F_Cu, <<0, 15>>, <<40, 15>>, 10)
      [] id = 33 -> Trace(33, 2, F_Cu, <<0, 25>>, <<40, 25>>, 10)
      [] id = 50 -> Zone(50, 2, {F_Cu}, <<12, 0>>, <<20, 10>>)
      [] id = 51 -> ZoneIslands(51, 1, {F_Cu}, <<0, 0>>, <<10, 10>>, <<30, 0>>, <<40, 10>>)
      [] id = 52 -> Zone(52, 2, {F_Cu}, <<12, 0>>, <<20, 10>>)
      [] id = 53 -> Zone(53, 3, {F_Cu}, <<22, 0>>, <<28, 10>>)
      [] id = 41 -> Trace(41, 2, F_Cu, <<22, -5>>, <<22, 5>>, 2)
      [] id = 42 -> Trace(42, 1, F_Cu, <<21, -8>>, <<21, -2>>, 2)
      [] id = 43 -> Trace(43, 0, F_Cu, <<0, -10>>, <<20, -10>>, 2)
      [] id = 44 -> Trace(44, 0, F_Cu, <<0, -7>>, <<20, -7>>, 2)
      [] id = 45 -> Pad(45, 0, Layers, {}, <<10, 1>>, 4, 2, 3, 1, "NPTH", FALSE, -1)

Themes ==
    {1..7, 11..16, {21, 22, 23, 25, 26, 27}, {21, 23, 24, 25, 26, 28}, 31..33,
     {1, 7, 41, 42, 43, 44, 45}, {12, 13, 16, 17, 18},
     50..53}

\* the n-th smallest id of a set of ids: the board's containers are walked
\* in id order
Nth(S, n) == CHOOSE x \in S : Cardinality({y \in S : y < x}) = n - 1

\* BOARD::Tracks()
Tracks(b) == {i \in b : IsTrack(Item(i))}

\* the pads of all BOARD::Footprints(), footprint by footprint
Pads(b) == {i \in b : Item(i).kind = "pad"}

\* BOARD::Drawings() and the footprints' GraphicalItems()
Graphics(b) == {i \in b : Item(i).kind \in {"shape", "text"}}

\* BOARD::m_DRCCopperZones
DRCCopperZones(b) == {i \in b : Item(i).kind = "zone"}

\* LSET( item->GetLayerSet() & boardCopperLayers ).Seq()
LayerSeqOf(it) == SelectSeq(LayerSeq, LAMBDA l : l \in it.layers)

\* BOARD::m_CopperItemRTreeCache->QueryColliding( ref, layer, layer, filter,
\* visitor, m_DRCMaxClearance ): the items of the layer, other than ref,
\* whose bounding box meets ref's inflated by the clearance budget
Candidates(b, ref, layer, c) ==
    {i \in b \ DRCCopperZones(b) :
        /\ i # ref.id
        /\ layer \in Item(i).layers
        /\ Intersects(Inflate(GetBoundingBox(ref), DRCMaxClearance(c)),
                      GetBoundingBox(Item(i)))}

\* the configurations of the full run
RunConfigs ==
    {Cfg(r, 0, ra, NoLimit) : r \in RuleSets, ra \in BOOLEAN}
    \cup {Cfg(Rule(3, 2, RPT_SEVERITY_ERROR, RPT_SEVERITY_ERROR), e, FALSE, NoLimit) :
             e \in 1..MaxEps}
    \cup {Cfg(Rule(3, 2, RPT_SEVERITY_ERROR, RPT_SEVERITY_ERROR), 0, FALSE, LimitAt(k, n)) :
             k \in Kinds, n \in 0..1}
    \cup {Cfg(Rule(3, 0, RPT_SEVERITY_ERROR, RPT_SEVERITY_ERROR), 0, FALSE,
              LimitAt(DRCE_CLEARANCE, 0)),
          Cfg(Rule(0, 0, RPT_SEVERITY_ERROR, RPT_SEVERITY_ERROR), 0, FALSE, NoLimit)}

\* map update: f with key k set to v
Put(f, k, v) == [x \in DOMAIN f \cup {k} |-> IF x = k THEN v ELSE f[x]]

\* DRC_TEST_PROVIDER::reportPhase and reportProgress: false once cancelled
reportPhase == ~cancelled

reportProgress == ~cancelled

\* DRC_TEST_PROVIDER::reportViolation
reportViolation(viol) == reports' = reports \o viol

InitRun ==
    /\ \E th \in Themes : board \in {b \in SUBSET th : Cardinality(b) <= MaxItems}
    /\ cfg \in RunConfigs
    /\ pc = "run"
    /\ reports = <<>>
    /\ cancelled = FALSE
    /\ runResult = "none"
    /\ idx = 0 /\ lyr = 0 /\ zi = 0
    /\ cands = {}
    /\ checkedPairs = <<>>
    /\ padChecked = {}
    /\ freePads = <<>>
    /\ inheritedNet = -1
    /\ futures = <<>>
    /\ zcancelled = FALSE
    /\ built = {}
    /\ testFlags = [testClearance |-> FALSE, testIntersects |-> FALSE]
    /\ ci = 0
    /\ call = Call("none", RefTrace(2), RefTrace(2), NoCfg)
    /\ out = Done(<<>>, TRUE)
    /\ LayersIdle

\* the user cancels the run: the shared flag is set and stays set
Cancel ==
    /\ pc \notin {"done", "call", "ret"}
    /\ ~cancelled
    /\ cancelled' = TRUE
    /\ UNCHANGED <<layerVars, board, cfg, pc, reports, call, out, runVars>>

\* a Run that never finds the board without clearance constraints
NoClearanceConstraintsNever(c) == FALSE

\* Run(): "No Clearance constraints found. Tests not run."
NoClearanceConstraints(c) == DRCMaxClearance(c) <= 0

\* Run() up to its first phase
RunBegin ==
    /\ pc = "run"
    /\ IF NoClearanceConstraints(cfg)
       THEN pc' = "done" /\ runResult' = TRUE
       ELSE pc' = "run.track" /\ UNCHANGED runResult
    /\ UNCHANGED <<layerVars, board, cfg, reports, cancelled, call, out,
                   idx, lyr, zi, cands, checkedPairs, padChecked, freePads, inheritedNet, zoneVars>>

\* a Run that enters the phase whatever reportPhase returns
EnterPhaseIgnoresCancel(ks, first, skip) ==
    IF \E k \in ks : ~IsErrorLimitExceeded(k, reports, cfg)
    THEN pc' = first /\ UNCHANGED runResult
    ELSE pc' = skip /\ UNCHANGED runResult

\* Run(): whether the phase guarded by the kinds ks is entered, skipped or
\* Run returns false because reportPhase did
EnterPhase(ks, first, skip) ==
    IF \E k \in ks : ~IsErrorLimitExceeded(k, reports, cfg)
    THEN IF reportPhase
         THEN pc' = first /\ UNCHANGED runResult
         ELSE pc' = "done" /\ runResult' = FALSE
    ELSE pc' = skip /\ UNCHANGED runResult

----------------------------------------------------------------------------
(* testTrackClearances                                                     *)

PairKey(a, b) == {a.id, b.id}

\* a default-constructed layers_checked
NoLayersChecked == [layers |-> {}, has_error |-> FALSE]

\* a filter without the net test
TrackFilterSameNetNever(track, other) == FALSE

\* the filter's net test: a connected item of the track's net is skipped
TrackFilterSameNet(track, other) == IsConnected(other) /\ other.net = track.net

\* a filter without the memo test
TrackFilterCheckedNever(key, layer, chk, c) == FALSE

\* the filter's memo test: the pair was tested on this layer, or has an
\* error and not all track errors are wanted
TrackFilterChecked(key, layer, chk, c) ==
    /\ key \in DOMAIN chk
    /\ (layer \in chk[key].layers \/ (chk[key].has_error /\ ~c.reportAll))

\* the filter lambda of testTrackClearances: whether other is handed to the
\* visitor, and the memo afterwards
TrackFilter(track, other, layer, chk, c) ==
    LET key == PairKey(track, other)
    IN  IF TrackFilterSameNet(track, other) THEN [pass |-> FALSE, chk |-> chk]
        ELSE IF TrackFilterChecked(key, layer, chk, c) THEN [pass |-> FALSE, chk |-> chk]
        ELSE [pass |-> TRUE,
              chk |-> Put(chk, key,
                          IF key \in DOMAIN chk
                          THEN [chk[key] EXCEPT !.layers = @ \cup {layer}]
                          ELSE [NoLayersChecked EXCEPT !.layers = {layer}])]

\* a visitor without the free-pad branch: every pad is tested like any
\* other item and no pad is ever claimed
TrackVisitorNoClaim(track, other, layer, chk, fpm, rep, c, isCancelled) ==
    LET key == PairKey(track, other)
        r == testTrackAgainstItem(track, layer, other, rep, c)
    IN  IF isCancelled
        THEN [viol |-> <<>>, go |-> FALSE, chk |-> chk, fpm |-> fpm]
        ELSE IF ~r.ret
        THEN [viol |-> r.viol,
              go |-> c.reportAll /\ ~isCancelled,
              chk |-> IF key \in DOMAIN chk
                      THEN [chk EXCEPT ![key].has_error = TRUE] ELSE chk,
              fpm |-> fpm]
        ELSE [viol |-> r.viol, go |-> ~isCancelled, chk |-> chk, fpm |-> fpm]

\* the visitor lambda of testTrackClearances: the violations it reports,
\* whether the query goes on, and the two maps afterwards
TrackVisitor(track, other, layer, chk, fpm, rep, c, isCancelled) ==
    LET key == PairKey(track, other)
        touchesFree == /\ other.kind = "pad" /\ other.free
                       /\ Collide(GetEffectiveShape(other), GetEffectiveShape(track), 0)
        r == testTrackAgainstItem(track, layer, other, rep, c)
    IN  IF isCancelled
        THEN [viol |-> <<>>, go |-> FALSE, chk |-> chk, fpm |-> fpm]
        ELSE IF touchesFree /\ other.id \notin DOMAIN fpm
        THEN [viol |-> <<>>, go |-> TRUE, chk |-> chk, fpm |-> Put(fpm, other.id, track.net)]
        ELSE IF touchesFree /\ fpm[other.id] = track.net
        THEN [viol |-> <<>>, go |-> TRUE, chk |-> chk, fpm |-> fpm]
        ELSE IF ~r.ret
        THEN [viol |-> r.viol,
              go |-> c.reportAll /\ ~isCancelled,
              chk |-> IF key \in DOMAIN chk
                      THEN [chk EXCEPT ![key].has_error = TRUE] ELSE chk,
              fpm |-> fpm]
        ELSE [viol |-> r.viol, go |-> ~isCancelled, chk |-> chk, fpm |-> fpm]

CurTrack == Item(Nth(Tracks(board), idx))

CurLayer(it) == LayerSeqOf(it)[lyr]

\* Run(): the track & via phase is entered when CLEARANCE or HOLE_CLEARANCE
\* violations are still accepted
RunTrackPhase ==
    /\ pc = "run.track"
    /\ EnterPhase({DRCE_CLEARANCE, DRCE_HOLE_CLEARANCE}, "track", "run.pad")
    /\ idx' = 1
    /\ checkedPairs' = <<>> /\ freePads' = <<>>
    /\ UNCHANGED <<layerVars, board, cfg, reports, cancelled, call, out,
                   lyr, zi, cands, padChecked, inheritedNet, zoneVars>>

\* head of the loop over the tracks: reportProgress, then the query on the
\* track's first layer is started
TrackLoop ==
    /\ pc = "track"
    /\ IF idx > Cardinality(Tracks(board)) \/ ~reportProgress
       THEN pc' = "run.pad" /\ UNCHANGED <<lyr, cands>>
       ELSE /\ pc' = "track.query"
            /\ lyr' = 1
            /\ cands' = Candidates(board, CurTrack, LayerSeqOf(CurTrack)[1], cfg)
    /\ UNCHANGED <<layerVars, board, cfg, reports, cancelled, call, out, runResult,
                   idx, zi, checkedPairs, padChecked, freePads, inheritedNet, zoneVars>>

\* the query hands out one candidate: filter, then visitor
TrackVisit ==
    /\ pc = "track.query"
    /\ \E o \in cands :
        LET track == CurTrack
            layer == CurLayer(track)
            f == TrackFilter(track, Item(o), layer, checkedPairs, cfg)
            v == TrackVisitor(track, Item(o), layer, f.chk, freePads, reports, cfg, cancelled)
        IN  IF f.pass
            THEN /\ reportViolation(v.viol)
                 /\ checkedPairs' = v.chk
                 /\ freePads' = v.fpm
                 /\ cands' = IF v.go THEN cands \ {o} ELSE {}
            ELSE /\ checkedPairs' = f.chk
                 /\ cands' = cands \ {o}
                 /\ UNCHANGED <<reports, freePads>>
    /\ UNCHANGED <<layerVars, board, cfg, pc, cancelled, call, out, runResult,
                   idx, lyr, zi, padChecked, inheritedNet, zoneVars>>

\* the query is over: the loop over the zones starts
TrackQueryEnd ==
    /\ pc = "track.query" /\ cands = {}
    /\ pc' = "track.zones"
    /\ zi' = 1
    /\ UNCHANGED <<layerVars, board, cfg, reports, cancelled, call, out, runResult,
                   idx, lyr, cands, checkedPairs, padChecked, freePads, inheritedNet, zoneVars>>

\* the next layer of the current track, or the next track
TrackNextLayer ==
    IF lyr < Len(LayerSeqOf(CurTrack))
    THEN /\ pc' = "track.query"
         /\ lyr' = lyr + 1
         /\ cands' = Candidates(board, CurTrack, LayerSeqOf(CurTrack)[lyr + 1], cfg)
         /\ UNCHANGED idx
    ELSE /\ pc' = "track"
         /\ idx' = idx + 1
         /\ UNCHANGED <<lyr, cands>>

\* one pass of the loop over m_DRCCopperZones: testItemAgainstZone, then
\* the IsCancelled test
TrackZone ==
    /\ pc = "track.zones"
    /\ IF zi > Cardinality(DRCCopperZones(board))
       THEN TrackNextLayer /\ UNCHANGED <<zi, reports>>
       ELSE LET zone == Item(Nth(DRCCopperZones(board), zi))
                r == testItemAgainstZone(CurTrack, zone, CurLayer(CurTrack), reports, cfg)
            IN  /\ reportViolation(r.viol)
                /\ IF cancelled
                   THEN TrackNextLayer /\ UNCHANGED zi
                   ELSE zi' = zi + 1 /\ UNCHANGED <<pc, idx, lyr, cands>>
    /\ UNCHANGED <<layerVars, board, cfg, cancelled, call, out, runResult,
                   checkedPairs, padChecked, freePads, inheritedNet, zoneVars>>

----------------------------------------------------------------------------
(* testPadClearances                                                       *)

\* the filter lambda of testPadClearances: a pair already in checkedPairs
\* is not handed to the visitor
PadFilter(pad, other, chk) == PairKey(pad, other) \notin chk

CurPad == Item(Nth(Pads(board), idx))

\* Run(): the pad phase is entered when CLEARANCE, or else SHORTING_ITEMS or
\* HOLE_CLEARANCE, violations are still accepted
RunPadPhase ==
    /\ pc = "run.pad"
    /\ EnterPhase({DRCE_CLEARANCE, DRCE_SHORTING_ITEMS, DRCE_HOLE_CLEARANCE},
                  "pad", "run.graphic")
    /\ idx' = 1
    /\ padChecked' = {}
    /\ UNCHANGED <<layerVars, board, cfg, reports, cancelled, call, out,
                   lyr, zi, cands, checkedPairs, freePads, inheritedNet, zoneVars>>

\* head of the loops over the footprints and their pads: the query on the
\* pad's first layer is started
PadLoop ==
    /\ pc = "pad"
    /\ IF idx > Cardinality(Pads(board))
       THEN pc' = "run.graphic" /\ UNCHANGED <<lyr, cands>>
       ELSE /\ pc' = "pad.query"
            /\ lyr' = 1
            /\ cands' = Candidates(board, CurPad, LayerSeqOf(CurPad)[1], cfg)
    /\ UNCHANGED <<layerVars, board, cfg, reports, cancelled, call, out, runResult,
                   idx, zi, checkedPairs, padChecked, freePads, inheritedNet, zoneVars>>

\* the query hands out one candidate: filter, then testPadAgainstItem
PadVisit ==
    /\ pc = "pad.query"
    /\ \E o \in cands :
        LET pad == CurPad
            r == testPadAgainstItem(pad, CurLayer(pad), Item(o), reports, cfg, cancelled)
        IN  IF PadFilter(pad, Item(o), padChecked)
            THEN /\ reportViolation(r.viol)
                 /\ padChecked' = padChecked \cup {PairKey(pad, Item(o))}
                 /\ cands' = IF r.ret THEN cands \ {o} ELSE {}
            ELSE /\ cands' = cands \ {o}
                 /\ UNCHANGED <<reports, padChecked>>
    /\ UNCHANGED <<layerVars, board, cfg, pc, cancelled, call, out, runResult,
                   idx, lyr, zi, checkedPairs, freePads, inheritedNet, zoneVars>>

PadQueryEnd ==
    /\ pc = "pad.query" /\ cands = {}
    /\ pc' = "pad.zones"
    /\ zi' = 1
    /\ UNCHANGED <<layerVars, board, cfg, reports, cancelled, call, out, runResult,
                   idx, lyr, cands, checkedPairs, padChecked, freePads, inheritedNet, zoneVars>>

\* after the zones of a layer: the pad's next layer, or reportProgress and
\* the footprint's IsCancelled test, then the next pad
PadNextLayer ==
    IF lyr < Len(LayerSeqOf(CurPad))
    THEN /\ pc' = "pad.query"
         /\ lyr' = lyr + 1
         /\ cands' = Candidates(board, CurPad, LayerSeqOf(CurPad)[lyr + 1], cfg)
         /\ UNCHANGED idx
    ELSE IF ~reportProgress \/ cancelled
    THEN pc' = "run.graphic" /\ UNCHANGED <<idx, lyr, cands>>
    ELSE pc' = "pad" /\ idx' = idx + 1 /\ UNCHANGED <<lyr, cands>>

\* one pass of the loop over m_DRCCopperZones: testItemAgainstZone, then
\* the IsCancelled test, which leaves testPadClearances
PadZone ==
    /\ pc = "pad.zones"
    /\ IF zi > Cardinality(DRCCopperZones(board))
       THEN PadNextLayer /\ UNCHANGED <<zi, reports>>
       ELSE LET zone == Item(Nth(DRCCopperZones(board), zi))
                r == testItemAgainstZone(CurPad, zone, CurLayer(CurPad), reports, cfg)
            IN  /\ reportViolation(r.viol)
                /\ IF cancelled
                   THEN pc' = "run.graphic" /\ UNCHANGED <<zi, idx, lyr, cands>>
                   ELSE zi' = zi + 1 /\ UNCHANGED <<pc, idx, lyr, cands>>
    /\ UNCHANGED <<layerVars, board, cfg, cancelled, call, out, runResult,
                   checkedPairs, padChecked, freePads, inheritedNet, zoneVars>>

----------------------------------------------------------------------------
(* testGraphicClearances                                                   *)

\* BOARD_ITEM::GetLayer() of an item on one layer
GetLayer(item) == CHOOSE l \in item.layers : TRUE

\* the isKnockoutText lambda
isKnockoutText(item) == item.kind = "text" /\ item.knockout

\* the n-th graphic item: BOARD::Drawings() first, then the footprints'
\* GraphicalItems()
GraphicAt(b, n) ==
    LET drawings == {i \in Graphics(b) : Item(i).fp = 0}
    IN  IF n <= Cardinality(drawings)
        THEN Item(Nth(drawings, n))
        ELSE Item(Nth(Graphics(b) \ drawings, n - Cardinality(drawings)))

\* Run(): the graphic phase is entered when CLEARANCE violations are still
\* accepted
RunGraphicPhase ==
    /\ pc = "run.graphic"
    /\ EnterPhase({DRCE_CLEARANCE}, "graphic", "run.zones")
    /\ idx' = 1
    /\ UNCHANGED <<layerVars, board, cfg, reports, cancelled, call, out,
                   lyr, zi, cands, checkedPairs, padChecked, freePads, inheritedNet, zoneVars>>

\* head of the loops over the graphic items: testGraphicAgainstZone starts
\* with nothing inherited
GraphicLoop ==
    /\ pc = "graphic"
    /\ IF idx > Cardinality(Graphics(board))
       THEN pc' = "run.zones" /\ UNCHANGED <<zi, inheritedNet>>
       ELSE pc' = "graphic.zones" /\ zi' = 1 /\ inheritedNet' = -1
    /\ UNCHANGED <<layerVars, board, cfg, reports, cancelled, call, out, runResult,
                   idx, lyr, cands, checkedPairs, padChecked, freePads, zoneVars>>

\* one pass of the zone loop of testGraphicAgainstZone, and after the last
\* zone (or a cancellation) the caller's reportProgress
GraphicZone ==
    /\ pc = "graphic.zones"
    /\ IF zi > Cardinality(DRCCopperZones(board))
       THEN /\ IF reportProgress
               THEN pc' = "graphic" /\ idx' = idx + 1
               ELSE pc' = "run.zones" /\ UNCHANGED idx
            /\ UNCHANGED <<zi, reports, inheritedNet>>
       ELSE LET item == GraphicAt(board, idx)
                zone == Item(Nth(DRCCopperZones(board), zi))
                k == testKnockoutTextAgainstZone(item, inheritedNet, zone, reports, cfg)
                r == testItemAgainstZone(item, zone, GetLayer(item), reports, cfg)
            IN  /\ IF isKnockoutText(item)
                   THEN reportViolation(k.viol) /\ inheritedNet' = k.net
                   ELSE reportViolation(r.viol) /\ UNCHANGED inheritedNet
                /\ zi' = IF cancelled THEN Cardinality(DRCCopperZones(board)) + 1 ELSE zi + 1
                /\ UNCHANGED <<pc, idx>>
    /\ UNCHANGED <<layerVars, board, cfg, cancelled, call, out, runResult,
                   lyr, cands, checkedPairs, padChecked, freePads, zoneVars>>

----------------------------------------------------------------------------
(* testZonesToZones                                                        *)

\* threads of the shared thread pool
PoolThreads == 2

\* the pcs at which testZonesToZones is on the stack
ZonePcs == {"zones.build", "zones.insert", "zones.pairs", "zones.collect"}

\* the n-th zone of m_DRCCopperZones
ZoneAt(n) == Item(Nth(DRCCopperZones(board), n))

\* KiROUND( sqrt( n ) )
RoundedSqrt(n) == LET r == ISqrt(n) IN IF n - r * r > r THEN r + 1 ELSE r

\* GetClearanceBetweenSegments for two segments of width 0: 0 when they
\* touch or intersect, else their rounded distance
GetClearanceBetweenSegments(s, t) ==
    LET dsq == SquaredDistance(s[1], s[2], t[1], t[2])
    IN  IF dsq = 0 THEN 0 ELSE RoundedSqrt(dsq)

\* poly_segments[ii][layer] once built: the boundary segments of the
\* zone's fractured fill, each with A.x <= B.x, sorted
PolySegments(zone) ==
    LET Outline(lo, hi) ==
            << <<(<<lo[1], lo[2]>>), (<<hi[1], lo[2]>>)>>,
               <<(<<lo[1], hi[2]>>), (<<lo[1], lo[2]>>)>>,
               <<(<<lo[1], hi[2]>>), (<<hi[1], hi[2]>>)>>,
               <<(<<hi[1], lo[2]>>), (<<hi[1], hi[2]>>)>> >>
    IN  IF zone.isl = <<>> THEN Outline(zone.A, zone.B)
        ELSE Outline(zone.A, zone.B) \o Outline(zone.isl[1], zone.isl[2])

\* what a task's poly_segments[zone][layer] lookup yields
ViewOf(zone, view) == IF view = "real" THEN PolySegments(zone) ELSE <<>>

\* invalid_result of checkZones
InvalidResult == [valid |-> FALSE, d |-> 0]

\* the early exit of the inner loop of checkZones
SweepBreak(ax2, bx1) == ax2 < bx1

\* whether checkZones sets reported for a pair of segments at distance d
SweepReported(d, clr, tc, ti) == d < clr /\ ((d = 0 /\ ti) \/ tc)

RECURSIVE Sweep(_, _, _, _, _, _, _, _)
\* the two nested loops of checkZones from reference segment i and test
\* segment j on; canc is the value the task reads from cancelled
Sweep(ref, test, i, j, clr, tc, ti, canc) ==
    IF i > Len(ref) THEN InvalidResult
    ELSE IF j > Len(test) THEN Sweep(ref, test, i + 1, 1, clr, tc, ti, canc)
    ELSE IF SweepBreak(ref[i][2][1], test[j][1][1])
    THEN Sweep(ref, test, i + 1, 1, clr, tc, ti, canc)
    ELSE LET d == GetClearanceBetweenSegments(test[j], ref[i])
         IN  IF SweepReported(d, clr, tc, ti) THEN [valid |-> TRUE, d |-> d]
             ELSE IF canc THEN InvalidResult
             ELSE Sweep(ref, test, i, j + 1, clr, tc, ti, canc)

\* the checkZones lambda on the segment lists its two lookups yielded
checkZones(refSegments, testSegments, zone2zoneClearance, tf, canc) ==
    Sweep(refSegments, testSegments, 1, 1, zone2zoneClearance,
          tf.testClearance, tf.testIntersects, canc)

\* whether the pair loop submits a task for zoneA, zoneB on the layer
ZonePairSubmitted(zoneA, zoneB, layer, c) ==
    LET constraint == EvalRules(CLEARANCE_CONSTRAINT, zoneA, zoneB, layer, c)
    IN  /\ layer \in zoneB.layers
        /\ ~(zoneA.net = zoneB.net /\ zoneA.net >= 0)
        /\ Intersects(GetBoundingBox(zoneA), GetBoundingBox(zoneB))
        /\ ~(constraint.sev = RPT_SEVERITY_IGNORE \/ constraint.value <= 0)

\* a future just pushed on futures, its task queued in the pool
Future(zoneA, zoneB, clr, layer) ==
    [a |-> zoneA.id, b |-> zoneB.id, clr |-> clr, layer |-> layer,
     st |-> "queued", va |-> "real", vb |-> "real", res |-> InvalidResult]

\* the futures the pair loop pushes for the zone of index ia on the layer
SubmittedFor(b, ia, layer, c) ==
    LET zoneA == Item(Nth(DRCCopperZones(b), ia))
        later == {z \in DRCCopperZones(b) :
                     z > zoneA.id /\ ZonePairSubmitted(zoneA, Item(z), layer, c)}
    IN  [n \in 1..Cardinality(later) |->
            Future(zoneA, Item(Nth(later, n)),
                   EvalRules(CLEARANCE_CONSTRAINT, zoneA, Item(Nth(later, n)), layer, c).value,
                   layer)]

\* a collection loop that reports the violation of a ready future twice
ZoneReportTwice(f, res, tf) ==
    IF ~res.valid THEN <<>>
    ELSE <<Violation(DRCE_CLEARANCE, Item(f.a), Item(f.b), f.layer, Max2(res.d, 0), f.clr),
           Violation(DRCE_CLEARANCE, Item(f.a), Item(f.b), f.layer, Max2(res.d, 0), f.clr)>>

\* what the collection loop reports for the result of a ready future
ZoneReport(f, res, tf) ==
    IF ~res.valid THEN <<>>
    ELSE IF res.d <= 0 /\ tf.testIntersects
    THEN <<Violation(DRCE_ZONES_INTERSECT, Item(f.a), Item(f.b), f.layer, res.d, f.clr)>>
    ELSE IF tf.testClearance
    THEN <<Violation(DRCE_CLEARANCE, Item(f.a), Item(f.b), f.layer, Max2(res.d, 0), f.clr)>>
    ELSE <<>>

\* a collection loop without the IsCancelled() test
CollectIgnoresCancel(isCancelled) == FALSE

\* the collection loop leaves a future unconsumed when IsCancelled()
CollectObservesCancel(isCancelled) == isCancelled

\* Run(): the zone phase is entered when CLEARANCE or ZONES_INTERSECT
\* violations are still accepted; testZonesToZones reads the two limits
RunZonePhase ==
    /\ pc = "run.zones"
    /\ EnterPhase({DRCE_CLEARANCE, DRCE_ZONES_INTERSECT}, "zones.build", "run.end")
    /\ testFlags' = [testClearance |-> ~IsErrorLimitExceeded(DRCE_CLEARANCE, reports, cfg),
                     testIntersects |-> ~IsErrorLimitExceeded(DRCE_ZONES_INTERSECT, reports, cfg)]
    /\ futures' = <<>> /\ zcancelled' = FALSE /\ built' = {}
    /\ lyr' = 1 /\ zi' = 1 /\ ci' = 1
    /\ UNCHANGED <<layerVars, board, cfg, reports, cancelled, call, out,
                   idx, cands, checkedPairs, padChecked, freePads, inheritedNet>>

\* the loop building poly_segments for the layer: the entry of the next
\* zone on the layer is about to be inserted
ZoneBuildBegin ==
    /\ pc = "zones.build"
    /\ IF zi > Cardinality(DRCCopperZones(board))
       THEN pc' = "zones.pairs" /\ zi' = 1
       ELSE IF LayerSeq[lyr] \in ZoneAt(zi).layers
       THEN pc' = "zones.insert" /\ UNCHANGED zi
       ELSE zi' = zi + 1 /\ UNCHANGED pc
    /\ UNCHANGED <<layerVars, board, cfg, reports, cancelled, call, out, runResult,
                   idx, lyr, cands, checkedPairs, padChecked, freePads, inheritedNet, zoneVars>>

\* the entry is inserted, filled and sorted
ZoneBuildEnd ==
    /\ pc = "zones.insert"
    /\ built' = built \cup {<<ZoneAt(zi).id, LayerSeq[lyr]>>}
    /\ zi' = zi + 1
    /\ pc' = "zones.build"
    /\ UNCHANGED <<layerVars, board, cfg, reports, cancelled, call, out, runResult,
                   idx, lyr, cands, checkedPairs, padChecked, freePads, inheritedNet,
                   futures, zcancelled, testFlags, ci>>

\* one pass of the loop over ia: reportProgress, then the tasks of zone ia
\* are submitted; after the last zone the next layer, or the collection
ZonePairs ==
    /\ pc = "zones.pairs"
    /\ IF zi > Cardinality(DRCCopperZones(board))
       THEN /\ IF lyr < Len(LayerSeq)
               THEN pc' = "zones.build" /\ lyr' = lyr + 1 /\ zi' = 1
               ELSE pc' = "zones.collect" /\ UNCHANGED <<lyr, zi>>
            /\ UNCHANGED futures
       ELSE IF ~reportProgress
       THEN pc' = "run.end" /\ UNCHANGED <<lyr, zi, futures>>
       ELSE /\ futures' = IF LayerSeq[lyr] \in ZoneAt(zi).layers
                          THEN futures \o SubmittedFor(board, zi, LayerSeq[lyr], cfg)
                          ELSE futures
            /\ zi' = zi + 1
            /\ UNCHANGED <<pc, lyr>>
    /\ UNCHANGED <<layerVars, board, cfg, reports, cancelled, call, out, runResult,
                   idx, cands, checkedPairs, padChecked, freePads, inheritedNet,
                   zcancelled, built, testFlags, ci>>

\* whether a task's lookup of the zone's entry is unordered with a write:
\* the orchestrating thread is inserting another layer's entry into the
\* same zone's map, or testZonesToZones has returned and poly_segments is
\* gone
LookupRaces(zoneId) ==
    \/ pc = "zones.insert" /\ ZoneAt(zi).id = zoneId
    \/ pc \notin ZonePcs

\* what the lookup can yield: the entry, or nothing when it races
LookupViews(zoneId) == IF LookupRaces(zoneId) THEN {"real", "empty"} ELSE {"real"}

\* a pool thread takes the oldest queued task, which looks up its two
\* segment lists; the pool is followed until Run has returned
TaskStart ==
    /\ pc # "done"
    /\ \E k \in 1..Len(futures) :
        /\ futures[k].st = "queued"
        /\ \A j \in 1..(k - 1) : futures[j].st # "queued"
        /\ Cardinality({j \in 1..Len(futures) : futures[j].st = "running"}) < PoolThreads
        /\ \E va \in LookupViews(futures[k].a), vb \in LookupViews(futures[k].b) :
            futures' = [futures EXCEPT ![k].st = "running", ![k].va = va, ![k].vb = vb]
    /\ UNCHANGED <<layerVars, board, cfg, pc, reports, cancelled, call, out, runResult,
                   idx, lyr, zi, cands, checkedPairs, padChecked, freePads, inheritedNet,
                   zcancelled, built, testFlags, ci>>

\* a running task sweeps its segment lists and makes its future ready
TaskFinish ==
    /\ pc # "done"
    /\ \E k \in 1..Len(futures) :
        /\ futures[k].st = "running"
        /\ futures' = [futures EXCEPT
                          ![k].st = "done",
                          ![k].res = checkZones(ViewOf(Item(futures[k].a), futures[k].va),
                                                ViewOf(Item(futures[k].b), futures[k].vb),
                                                futures[k].clr, testFlags, zcancelled)]
    /\ UNCHANGED <<layerVars, board, cfg, pc, reports, cancelled, call, out, runResult,
                   idx, lyr, zi, cands, checkedPairs, padChecked, freePads, inheritedNet,
                   zcancelled, built, testFlags, ci>>

\* one future of the collection loop: wait_for until the task is ready or
\* the run is cancelled; a ready result is reported
ZoneCollect ==
    /\ pc = "zones.collect"
    /\ IF ci > Len(futures)
       THEN pc' = "run.end" /\ UNCHANGED <<reports, zcancelled, ci>>
       ELSE IF CollectObservesCancel(cancelled)
       THEN zcancelled' = TRUE /\ ci' = ci + 1 /\ UNCHANGED <<pc, reports>>
       ELSE /\ futures[ci].st = "done"
            /\ reportViolation(ZoneReport(futures[ci], futures[ci].res, testFlags))
            /\ ci' = ci + 1
            /\ UNCHANGED <<pc, zcancelled>>
    /\ UNCHANGED <<layerVars, board, cfg, cancelled, call, out, runResult,
                   idx, lyr, zi, cands, checkedPairs, padChecked, freePads, inheritedNet,
                   futures, built, testFlags>>

\* reportRuleStatistics and the return of Run
RunEnd ==
    /\ pc = "run.end"
    /\ pc' = "done"
    /\ runResult' = ~cancelled
    /\ UNCHANGED <<layerVars, board, cfg, reports, cancelled, call, out,
                   idx, lyr, zi, cands, checkedPairs, padChecked, freePads, inheritedNet, zoneVars>>

Next ==
    \/ Cancel \/ RunBegin \/ RunTrackPhase
    \/ TrackLoop \/ TrackVisit \/ TrackQueryEnd \/ TrackZone
    \/ RunPadPhase \/ PadLoop \/ PadVisit \/ PadQueryEnd \/ PadZone
    \/ RunGraphicPhase \/ GraphicLoop \/ GraphicZone
    \/ RunZonePhase \/ ZoneBuildBegin \/ ZoneBuildEnd \/ ZonePairs
    \/ TaskStart \/ TaskFinish \/ ZoneCollect
    \/ RunEnd

Spec == InitRun /\ [][Next]_vars

-----------------------------------------------------------------------------
(* BOARD_ADAPTER::createLayers: the worker loops that add the zone shapes  *)
(* and simplify the layer polygons.  Both loops have the same shape: an    *)
(* atomic counter hands out the work item indices, the threads are         *)
(* detached, and the orchestrating thread polls threadsFinished.  The      *)
(* zones vector is filled from m_board->Zones(), whose entries are zones,  *)
(* so the loop's test for a null zone never ends a thread.                 *)

MaxWork == 3       \* most work items (zones.size(), selected_layer_id.size())

MaxHardware == 3   \* largest std::thread::hardware_concurrency() (0: unknown)

\* parallelThreadCount
ParallelThreadCount(n, hw) == Min2(n, Max2(hw, 2))

\* the layer of work item i of the zone loop (zones[areaId].second)
WorkLayer(i) == i % 2

\* an orchestrator that never waits
StillPollingNever(finished, count) == FALSE

\* while( threadsFinished < parallelThreadCount ) sleep
StillPolling(finished, count) == finished < count

InitLayers ==
    /\ \E n \in 0..MaxWork, hw \in 0..MaxHardware :
          \/ \E gl \in BOOLEAN :
                job = [kind |-> "zones", n |-> n, hw |-> hw,
                       threads |-> ParallelThreadCount(n, hw), poly |-> gl]
          \/ job = [kind |-> "simplify", n |-> n, hw |-> hw,
                    threads |-> ParallelThreadCount(n, hw), poly |-> FALSE]
    /\ nextItem = 0
    /\ threadsFinished = 0
    /\ spawned = 0
    /\ lpc = "spawn"
    /\ thr = [t \in 1..job.threads |-> [st |-> "none", areaId |-> 0]]
    /\ claimedBy = [i \in 0..(job.n - 1) |-> <<>>]
    /\ processed = [i \in 0..(job.n - 1) |-> 0]
    /\ locks = {}
    /\ board = {}
    /\ cfg = NoCfg
    /\ pc = "layers"
    /\ reports = <<>>
    /\ cancelled = FALSE
    /\ runResult = "none"
    /\ idx = 0 /\ lyr = 0 /\ zi = 0
    /\ cands = {}
    /\ checkedPairs = <<>>
    /\ padChecked = {}
    /\ freePads = <<>>
    /\ inheritedNet = -1
    /\ futures = <<>>
    /\ zcancelled = FALSE
    /\ built = {}
    /\ testFlags = [testClearance |-> FALSE, testIntersects |-> FALSE]
    /\ ci = 0
    /\ call = Call("none", RefTrace(2), RefTrace(2), NoCfg)
    /\ out = Done(<<>>, TRUE)

\* for( ii < parallelThreadCount ): start a thread and detach it
StartThread ==
    /\ lpc = "spawn"
    /\ IF spawned < job.threads
       THEN /\ thr' = [thr EXCEPT ![spawned + 1].st = "fetch"]
            /\ spawned' = spawned + 1
            /\ UNCHANGED lpc
       ELSE lpc' = "poll" /\ UNCHANGED <<thr, spawned>>
    /\ UNCHANGED <<drcVars, job, nextItem, threadsFinished, claimedBy, processed, locks>>

\* areaId = nextZone.fetch_add( 1 ), and the loop's test areaId < size
FetchAdd(t) ==
    /\ thr[t].st = "fetch"
    /\ nextItem' = nextItem + 1
    /\ IF nextItem < job.n
       THEN /\ thr' = [thr EXCEPT ![t] = [st |-> "work", areaId |-> nextItem]]
            /\ claimedBy' = [claimedBy EXCEPT ![nextItem] = Append(@, t)]
       ELSE /\ thr' = [thr EXCEPT ![t] = [st |-> "exit", areaId |-> nextItem]]
            /\ UNCHANGED claimedBy
    /\ UNCHANGED <<drcVars, job, threadsFinished, spawned, lpc, processed, locks>>

\* the loop body up to the lock: addSolidAreasShapes, or the whole Simplify
ProcessItem(t) ==
    /\ thr[t].st = "work"
    /\ IF job.kind = "zones" /\ job.poly
       THEN thr' = [thr EXCEPT ![t].st = "lock"] /\ UNCHANGED processed
       ELSE /\ thr' = [thr EXCEPT ![t].st = "fetch"]
            /\ processed' = [processed EXCEPT ![thr[t].areaId] = @ + 1]
    /\ UNCHANGED <<drcVars, job, nextItem, threadsFinished, spawned, lpc, claimedBy, locks>>

\* std::lock_guard lock( *layer_lock[layer] )
LockLayer(t) ==
    /\ thr[t].st = "lock"
    /\ WorkLayer(thr[t].areaId) \notin locks
    /\ locks' = locks \cup {WorkLayer(thr[t].areaId)}
    /\ thr' = [thr EXCEPT ![t].st = "locked"]
    /\ UNCHANGED <<drcVars, job, nextItem, threadsFinished, spawned, lpc, claimedBy, processed>>

\* TransformSolidAreasShapesToPolygon under the lock, then the lock's release
TransformLocked(t) ==
    /\ thr[t].st = "locked"
    /\ locks' = locks \ {WorkLayer(thr[t].areaId)}
    /\ processed' = [processed EXCEPT ![thr[t].areaId] = @ + 1]
    /\ thr' = [thr EXCEPT ![t].st = "fetch"]
    /\ UNCHANGED <<drcVars, job, nextItem, threadsFinished, spawned, lpc, claimedBy>>

\* threadsFinished++, the thread's last statement
ThreadFinished(t) ==
    /\ thr[t].st = "exit"
    /\ threadsFinished' = threadsFinished + 1
    /\ thr' = [thr EXCEPT ![t].st = "finished"]
    /\ UNCHANGED <<drcVars, job, nextItem, spawned, lpc, claimedBy, processed, locks>>

\* the polling loop finds its condition false
LeavePoll ==
    /\ lpc = "poll"
    /\ ~StillPolling(threadsFinished, job.threads)
    /\ lpc' = "left"
    /\ UNCHANGED <<drcVars, job, nextItem, threadsFinished, spawned, thr, claimedBy, processed,
                   locks>>

NextLayers ==
    \/ StartThread
    \/ LeavePoll
    \/ \E t \in DOMAIN thr : FetchAdd(t)
    \/ \E t \in DOMAIN thr : ProcessItem(t)
    \/ \E t \in DOMAIN thr : LockLayer(t)
    \/ \E t \in DOMAIN thr : TransformLocked(t)
    \/ \E t \in DOMAIN thr : ThreadFinished(t)

SpecLayers == InitLayers /\ [][NextLayers]_vars

----------------------------------------------------------------------------
(* Properties of single calls (checked under SpecCall)                     *)

Returned(fn) == pc = "ret" /\ call.fn = fn

\* CLEARANCE is enforced for the call: a rule with a value > 0 that is not
\* ignored, and the engine still accepts CLEARANCE violations
ClearanceEnforced ==
    /\ call.c.clrSev # RPT_SEVERITY_IGNORE
    /\ call.c.clr > 0
    /\ ~IsErrorLimitExceeded(DRCE_CLEARANCE, <<>>, call.c)

BothTraces == call.a.kind = "trace" /\ call.b.kind = "trace"

Horizontal(it) == it.A[2] = it.B[2]

\* two parallel traces of different nets, one call of testTrackAgainstItem
ParallelPair ==
    /\ Returned("track") /\ BothTraces
    /\ Horizontal(call.a) /\ Horizontal(call.b)
    /\ call.a.net # call.b.net
    /\ ClearanceEnforced

\* edge-to-edge separation of the two parallel traces
Separation ==
    Abs(call.b.A[2] - call.a.A[2]) - call.a.width \div 2 - call.b.width \div 2

\* C3: two traces of different nets that cross, with CLEARANCE enforced at a
\* value > 0, are reported by testTrackAgainstItem as TRACKS_CROSSING and
\* not as CLEARANCE, and two traces that do not cross are not reported as
\* TRACKS_CROSSING
C3_CrossingReported ==
    ( /\ Returned("track") /\ BothTraces
      /\ call.a.net # call.b.net
      /\ ClearanceEnforced )
    => IF Intersect(call.a.A, call.a.B, call.b.A, call.b.B)
       THEN DRCE_TRACKS_CROSSING \in OutKinds /\ DRCE_CLEARANCE \notin OutKinds
       ELSE DRCE_TRACKS_CROSSING \notin OutKinds

\* C4 as stated: whatever the DRC epsilon, parallel traces at separation
\* clearance - 1 are reported as CLEARANCE and at separation clearance are not
C4_AnyEpsilon ==
    ParallelPair =>
        /\ (Separation = call.c.clr - 1 => DRCE_CLEARANCE \in OutKinds)
        /\ (Separation = call.c.clr => DRCE_CLEARANCE \notin OutKinds)

\* C4 amended: parallel traces are reported as CLEARANCE exactly when their
\* separation is below clearance minus epsilon: at separation clearance - 1
\* when the epsilon is 0, and never at separation clearance
C4_EpsilonSubtracted ==
    ParallelPair =>
        /\ (DRCE_CLEARANCE \in OutKinds <=> Separation < call.c.clr - call.c.eps)
        /\ (Separation = call.c.clr - 1 /\ call.c.eps = 0 => DRCE_CLEARANCE \in OutKinds)
        /\ (Separation = call.c.clr => DRCE_CLEARANCE \notin OutKinds)

C4_Witness ==
    /\ ParallelPair /\ call.c.eps = 0 /\ Separation = call.c.clr - 1
    /\ DRCE_CLEARANCE \in OutKinds

\* the two pads of the call are the same logical pad
SameLogicalCall ==
    /\ Returned("pad") /\ call.b.kind = "pad" /\ SameLogicalPadAs(call.a, call.b)

\* C5: for two pads that are the same logical pad testPadAgainstItem reports
\* neither CLEARANCE nor HOLE_CLEARANCE, and it reports SHORTING_ITEMS when
\* both nets are non-zero and differ and the SHORTING_ITEMS limit is not
\* exceeded
C5_SameLogicalPad ==
    SameLogicalCall =>
        /\ DRCE_CLEARANCE \notin OutKinds
        /\ DRCE_HOLE_CLEARANCE \notin OutKinds
        /\ ( /\ call.a.net # 0 /\ call.b.net # 0 /\ call.a.net # call.b.net
             /\ ~IsErrorLimitExceeded(DRCE_SHORTING_ITEMS, <<>>, call.c)
             => out.viol = <<Violation(DRCE_SHORTING_ITEMS, call.a, call.b, call.layer, 0, 0)>> )

\* two overlapping same-logical pads of different nets, under rules that
\* would report their copper, were visited and reported as shorting
C5_Witness ==
    /\ SameLogicalCall /\ ClearanceEnforced
    /\ call.a.net # 0 /\ call.b.net # 0 /\ call.a.net # call.b.net
    /\ Collide(GetEffectiveShape(call.a), GetEffectiveShape(call.b), 0)
    /\ OutKinds = {DRCE_SHORTING_ITEMS}

\* the HOLE_CLEARANCE test is on for the call
HolesEnforced ==
    /\ call.c.holeSev # RPT_SEVERITY_IGNORE
    /\ ~IsErrorLimitExceeded(DRCE_HOLE_CLEARANCE, <<>>, call.c)

\* copper of item x overlaps the hole of item y
OverlapsHole(x, y) ==
    HasHole(y) /\ Collide(GetEffectiveShape(x), GetEffectiveHoleShape(y), 0)

\* C6, track phase: a track's copper overlapping the hole of a via or pad
\* of another net (or the other's copper overlapping the via's own hole)
\* is reported as HOLE_CLEARANCE unless the call already reported the pair
C6_TrackHoles ==
    ( /\ Returned("track") /\ HolesEnforced
      /\ call.a.net # call.b.net
      /\ OverlapsHole(call.a, call.b)
      /\ OutKinds \cap {DRCE_CLEARANCE, DRCE_TRACKS_CROSSING} = {} )
    => DRCE_HOLE_CLEARANCE \in OutKinds

\* C6, pad phase: a flashed pad overlapping the hole of a pad or via of
\* another net is reported as HOLE_CLEARANCE unless CLEARANCE was reported
C6_PadHoles ==
    ( /\ Returned("pad") /\ HolesEnforced
      /\ call.b.kind \in {"pad", "via"}
      /\ ~SameLogicalPadAs(call.a, call.b)
      /\ ~PadSameNetWaiver(call.a, call.b)
      /\ OverlapsHole(call.a, call.b)
      /\ DRCE_CLEARANCE \notin OutKinds )
    => DRCE_HOLE_CLEARANCE \in OutKinds

\* C6, item versus zone: a hole overlapping the fill of a zone of another
\* net is reported as HOLE_CLEARANCE
C6_ZoneHoles ==
    ( /\ Returned("zone") /\ HolesEnforced
      /\ call.layer \in call.b.layers
      /\ ~ItemZoneSameNet(call.a, call.b)
      /\ HasHole(call.a)
      /\ ZoneQueryColliding(call.b, GetEffectiveHoleShape(call.a), 0) )
    => DRCE_HOLE_CLEARANCE \in OutKinds

\* C6: the copper-against-hole test is made whenever an item of the pair
\* has a hole and HOLE_CLEARANCE is not ignored, also at a declared
\* clearance of 0, in the track phase, the pad phase and against zones
C6_HolesTestedAtZero == C6_TrackHoles /\ C6_PadHoles /\ C6_ZoneHoles

\* C19: testTrackAgainstItem returns false exactly when it reported at
\* least one violation during the call, and true when it reported none
C19_FalseIffReported ==
    Returned("track") => (out.ret <=> out.viol = <<>>)

\* a call that reported CLEARANCE against an item with a hole, went on to
\* the hole test because all track errors are wanted, found no hole
\* violation and returned false
C19_Witness ==
    /\ Returned("track") /\ call.c.reportAll
    /\ HasHole(call.b) /\ HolesEnforced
    /\ OutKinds = {DRCE_CLEARANCE}
    /\ ~out.ret

----------------------------------------------------------------------------
(* Properties of the full run (checked under Spec)                         *)

\* Run has returned and was never cancelled
Finished == pc = "done" /\ ~cancelled

ZoneIds == DRCCopperZones(board)

\* the reports of kind k naming the unordered pair {a, b} on layer l
ReportsOf(k, a, b, l) ==
    {i \in 1..Len(reports) :
        /\ reports[i].kind = k
        /\ {reports[i].a, reports[i].b} = {a, b}
        /\ reports[i].layer = l}

\* the reports of the zone-versus-zone phase
ZoneReports == {i \in 1..Len(reports) : {reports[i].a, reports[i].b} \subseteq ZoneIds}

\* two connected items carrying the same non-zero net code
SameNonZeroNet(x, y) ==
    IsConnected(x) /\ IsConnected(y) /\ x.net = y.net /\ x.net # 0

\* C1: no CLEARANCE and no HOLE_CLEARANCE violation is ever reported, in
\* any phase, between two items carrying the same non-zero net code
C1_SameNetNeverReported ==
    \A i \in 1..Len(reports) :
        reports[i].kind \in {DRCE_CLEARANCE, DRCE_HOLE_CLEARANCE}
            => ~SameNonZeroNet(Item(reports[i].a), Item(reports[i].b))

\* a finished run, with nothing ignored or limited, over a board holding
\* two items of one net that are closer than the clearance on a layer
C1_Witness ==
    /\ Finished /\ cfg.limit = NoLimit
    /\ cfg.clr > 0 /\ cfg.clrSev = RPT_SEVERITY_ERROR
    /\ \E a \in Tracks(board), b \in board \ ZoneIds :
        /\ a # b
        /\ SameNonZeroNet(Item(a), Item(b))
        /\ Item(a).layers \cap Item(b).layers # {}
        /\ Collide(GetEffectiveShape(Item(a)), GetEffectiveShape(Item(b)), cfg.clr)

\* C2: with "report all track errors" disabled, every unordered pair of
\* items has at most one CLEARANCE violation per layer in a run, all phases
\* counted together
C2_OncePerPairAndLayer ==
    ~cfg.reportAll =>
        \A i, j \in 1..Len(reports) :
            ( /\ reports[i].kind = DRCE_CLEARANCE /\ reports[j].kind = DRCE_CLEARANCE
              /\ {reports[i].a, reports[i].b} = {reports[j].a, reports[j].b}
              /\ reports[i].layer = reports[j].layer )
            => i = j

\* a finished run that reported two tracks against each other, each of
\* which had the other among its candidates
C2_Witness ==
    /\ Finished /\ ~cfg.reportAll
    /\ \E i \in 1..Len(reports) :
        /\ reports[i].kind = DRCE_CLEARANCE
        /\ {reports[i].a, reports[i].b} \subseteq Tracks(board)

\* the fills of two zones overlap by a non-zero area
FillsOverlap(zoneA, zoneB) ==
    LET Islands(z) == {<<z.A, z.B>>} \cup (IF z.isl = <<>> THEN {} ELSE {z.isl})
    IN  \E r \in Islands(zoneA), q \in Islands(zoneB) :
            /\ Max2(r[1][1], q[1][1]) < Min2(r[2][1], q[2][1])
            /\ Max2(r[1][2], q[1][2]) < Min2(r[2][2], q[2][2])

\* C7: after a run that was not cancelled, with no error limit and the
\* clearance enforced at a value > 0, two zones of different nets whose
\* fills overlap on a layer have exactly one violation on that layer, of
\* kind ZONES_INTERSECT
C7_OverlapIsIntersect ==
    ( /\ Finished /\ cfg.limit = NoLimit
      /\ cfg.clr > 0 /\ cfg.clrSev # RPT_SEVERITY_IGNORE )
    => \A a, b \in ZoneIds : \A l \in Item(a).layers \cap Item(b).layers :
          (a < b /\ Item(a).net # Item(b).net /\ FillsOverlap(Item(a), Item(b)))
          => /\ Cardinality(ReportsOf(DRCE_ZONES_INTERSECT, a, b, l)) = 1
             /\ ReportsOf(DRCE_CLEARANCE, a, b, l) = {}

\* reports is only ever appended to
ReportsKept ==
    /\ Len(reports') >= Len(reports)
    /\ SubSeq(reports', 1, Len(reports)) = reports

\* C8: once the cancellation flag is set while testZonesToZones collects
\* its futures, no step reports a violation, whether or not the task of an
\* unconsumed future has finished, and no step removes a violation already
\* reported
C8_CancelledCollection ==
    [][ /\ (pc \in ZonePcs => ReportsKept)
        /\ (pc = "zones.collect" /\ cancelled => reports' = reports) ]_vars

\* the collection loop has observed the cancellation after reporting a
\* zone pair, and left unconsumed a future whose task has finished with a
\* violation to report
C8_Witness ==
    /\ pc = "zones.collect" /\ zcancelled
    /\ ZoneReports # {}
    /\ \E k \in 1..Len(futures) :
        /\ futures[k].st = "done" /\ futures[k].res.valid
        /\ ZoneReport(futures[k], futures[k].res, testFlags) # <<>>
        /\ \A i \in ZoneReports :
              ~({reports[i].a, reports[i].b} = {futures[k].a, futures[k].b}
                /\ reports[i].layer = futures[k].layer)

\* the futures the pair loops push for the zone of index ia, all layers
SubmittedOn(ia) ==
    UNION {{SubmittedFor(board, ia, l, cfg)[n] : n \in DOMAIN SubmittedFor(board, ia, l, cfg)} :
              l \in Item(Nth(ZoneIds, ia)).layers}

\* what the zone phase reports for the board when every task reads the
\* segment lists as built: kind, items and layer
ExpectedZoneReports ==
    LET all == UNION {SubmittedOn(ia) : ia \in 1..Cardinality(ZoneIds)}
        found == {ZoneReport(f, checkZones(PolySegments(Item(f.a)), PolySegments(Item(f.b)),
                                           f.clr, testFlags, FALSE), testFlags) : f \in all}
    IN  {<<v[1].kind, v[1].a, v[1].b, v[1].layer>> : v \in {w \in found : w # <<>>}}

\* C9: a run that was not cancelled reports for the zones of a board the
\* same violations (kind, items, layer), each once, however the zone-pair
\* tasks were scheduled
C9_Deterministic ==
    (Finished /\ (testFlags.testClearance \/ testFlags.testIntersects))
    => /\ {<<reports[i].kind, reports[i].a, reports[i].b, reports[i].layer>> :
              i \in ZoneReports} = ExpectedZoneReports
       /\ Cardinality(ZoneReports) = Cardinality(ExpectedZoneReports)

\* the scenario of C10: a board of two parallel traces 10 wide on nets 1
\* and 2, rule clearance 10, DRC epsilon 0, no error limit, run to the end
C10_Scene(other) ==
    /\ Finished
    /\ board = {31, other}
    /\ cfg.clr = 10 /\ cfg.clrSev = RPT_SEVERITY_ERROR /\ cfg.eps = 0
    /\ cfg.limit = NoLimit

\* C10 as stated: centre lines 25 apart give one CLEARANCE violation with
\* actual 5 and clearance 10
C10_AsStated ==
    C10_Scene(33) => reports = <<Violation(DRCE_CLEARANCE, Item(31), Item(33), F_Cu, 5, 10)>>

\* C10 amended: centre lines 25 apart leave a separation of 15 and nothing
\* is reported; centre lines 15 apart leave 5 and give exactly one CLEARANCE
\* violation with actual 5 and clearance 10
C10_Separation ==
    /\ (C10_Scene(33) => reports = <<>>)
    /\ (C10_Scene(32) =>
            reports = <<Violation(DRCE_CLEARANCE, Item(31), Item(32), F_Cu, 5, 10)>>)

C10_Witness ==
    /\ C10_Scene(32)
    /\ reports = <<Violation(DRCE_CLEARANCE, Item(31), Item(32), F_Cu, 5, 10)>>

\* C11: for every violation kind, a step taken when the kind's error limit
\* is exceeded (also when it became exceeded in the middle of a phase)
\* reports no violation of that kind
C11_LimitStopsKind ==
    [][ \A k \in Kinds :
            IsErrorLimitExceeded(k, reports, cfg)
                => CountKind(reports', k) = CountKind(reports, k) ]_vars

\* the run's rules and settings with no error limit on any kind
Unlimited == [cfg EXCEPT !.limit = NoLimit]

\* a run that was not cancelled and during which the CLEARANCE limit, and
\* only it, was exceeded from the start
OnlyClearanceExceeded == Finished /\ cfg.limit = LimitAt(DRCE_CLEARANCE, 0)

\* the violation was passed to reportViolation
Reported(v) == \E i \in 1..Len(reports) : reports[i] = v

\* the violations of kind k among those a call reported
OfKind(viol, k) == {viol[i] : i \in {j \in 1..Len(viol) : viol[j].kind = k}}

\* HOLE_CLEARANCE found with no limit exceeded by the track phase: every
\* track against every candidate the net test of the filter lets through
UnlimitedTrackHoles ==
    UNION {UNION {UNION {
        OfKind(testTrackAgainstItem(Item(t), l, Item(o), <<>>, Unlimited).viol,
               DRCE_HOLE_CLEARANCE) :
            o \in {x \in Candidates(board, Item(t), l, cfg) :
                      ~TrackFilterSameNet(Item(t), Item(x))}} :
            l \in Item(t).layers} :
            t \in Tracks(board)}

\* the (pad, layer, other) from which the pad phase tests each pair: the
\* first pad, and its first layer, that has the other among its candidates
PadPairTests ==
    {t \in Pads(board) \X Layers \X (board \ ZoneIds) :
        /\ t[2] \in Item(t[1]).layers
        /\ t[3] \in Candidates(board, Item(t[1]), t[2], cfg)
        /\ ~(t[3] \in Pads(board) /\ t[3] < t[1])
        /\ ~(t[2] = B_Cu /\ F_Cu \in Item(t[1]).layers
             /\ t[3] \in Candidates(board, Item(t[1]), F_Cu, cfg))}

\* violations of kind k found with no limit exceeded by the pad phase
UnlimitedPadFinds(k) ==
    UNION {OfKind(testPadAgainstItem(Item(t[1]), t[2], Item(t[3]), <<>>, Unlimited,
                                     FALSE).viol, k) : t \in PadPairTests}

\* HOLE_CLEARANCE found with no limit exceeded by the item-versus-zone loops
\* of the track and pad phases
UnlimitedZoneHoles ==
    UNION {UNION {UNION {
        OfKind(testItemAgainstZone(Item(i), Item(z), l, <<>>, Unlimited).viol,
               DRCE_HOLE_CLEARANCE) :
            z \in ZoneIds} :
            l \in Item(i).layers} :
            i \in Tracks(board) \cup Pads(board)}

RECURSIVE KnockoutFold(_, _, _, _)
\* what the zone loop of testGraphicAgainstZone reports for a knockout text
\* from the n-th zone on, having inherited the net inh
KnockoutFold(item, n, inh, c) ==
    IF n > Cardinality(ZoneIds) THEN <<>>
    ELSE LET k == testKnockoutTextAgainstZone(item, inh, ZoneAt(n), <<>>, c)
         IN  k.viol \o KnockoutFold(item, n + 1, k.net, c)

\* SHORTING_ITEMS found with no limit exceeded by the graphic phase
UnlimitedTextShorts ==
    UNION {OfKind(KnockoutFold(Item(g), 1, -1, Unlimited), DRCE_SHORTING_ITEMS) :
              g \in {x \in Graphics(board) : isKnockoutText(Item(x))}}

\* no task of the zone phase made a racing lookup of its segment lists
NoLookupRaced ==
    \A k \in 1..Len(futures) : futures[k].va = "real" /\ futures[k].vb = "real"

\* ZONES_INTERSECT found with no limit exceeded by the zone phase
UnlimitedIntersects ==
    LET all == UNION {SubmittedOn(ia) : ia \in 1..Cardinality(ZoneIds)}
        tf == [testClearance |-> TRUE, testIntersects |-> TRUE]
    IN  UNION {OfKind(ZoneReport(f, checkZones(PolySegments(Item(f.a)), PolySegments(Item(f.b)),
                                               f.clr, tf, FALSE), tf),
                      DRCE_ZONES_INTERSECT) : f \in all}

\* C12, tracks and pads: with only the CLEARANCE limit exceeded the
\* HOLE_CLEARANCE and SHORTING_ITEMS violations of the track and pad phases
\* are still reported
C12_TracksAndPads ==
    OnlyClearanceExceeded =>
        \A v \in UnlimitedTrackHoles \cup UnlimitedZoneHoles
                 \cup UnlimitedPadFinds(DRCE_HOLE_CLEARANCE)
                 \cup UnlimitedPadFinds(DRCE_SHORTING_ITEMS) : Reported(v)

\* C12, zones: with only the CLEARANCE limit exceeded the ZONES_INTERSECT
\* violations of the zone phase are still reported
C12_Zones ==
    OnlyClearanceExceeded /\ NoLookupRaced => \A v \in UnlimitedIntersects : Reported(v)

\* C12, knockout text: with only the CLEARANCE limit exceeded the
\* SHORTING_ITEMS violations of the graphic phase are still reported
C12_TextShorts ==
    OnlyClearanceExceeded => \A v \in UnlimitedTextShorts : Reported(v)

\* C12: exceeding the CLEARANCE limit alone loses no HOLE_CLEARANCE,
\* SHORTING_ITEMS or ZONES_INTERSECT violation that is found with no limit
\* exceeded, for tracks, pads, knockout-text graphics and zones
C12_OtherKindsContinue == C12_TracksAndPads /\ C12_Zones /\ C12_TextShorts

\* the kinds reported so far
ReportedKinds == {reports[i].kind : i \in 1..Len(reports)}

\* C13: when the rules resolve the clearance constraint with severity
\* IGNORE no CLEARANCE and no ZONES_INTERSECT violation is reported and no
\* zone pair is handed to a task; when they resolve the hole constraint with
\* severity IGNORE no HOLE_CLEARANCE violation is reported
C13_IgnoredNeverTested ==
    /\ cfg.clrSev = RPT_SEVERITY_IGNORE =>
          /\ ReportedKinds \cap {DRCE_CLEARANCE, DRCE_ZONES_INTERSECT} = {}
          /\ futures = <<>>
    /\ cfg.holeSev = RPT_SEVERITY_IGNORE => DRCE_HOLE_CLEARANCE \notin ReportedKinds

\* a finished run under an ignored clearance rule over a board with a track
\* inside the clearance of a zone of another net, and one under an ignored
\* hole rule over a board with a drilled item in the fill of such a zone
C13_Witness ==
    /\ Finished
    /\ \/ /\ cfg.clrSev = RPT_SEVERITY_IGNORE /\ cfg.clr > 0
          /\ \E t \in Tracks(board), z \in ZoneIds :
                /\ ~ItemZoneSameNet(Item(t), Item(z))
                /\ Item(t).layers \cap Item(z).layers # {}
                /\ ZoneQueryColliding(Item(z), GetEffectiveShape(Item(t)), cfg.clr)
          /\ DRCE_CLEARANCE \notin ReportedKinds
       \/ /\ cfg.holeSev = RPT_SEVERITY_IGNORE /\ cfg.hole > 0
          /\ \E t \in Tracks(board), z \in ZoneIds :
                /\ ~ItemZoneSameNet(Item(t), Item(z))
                /\ HasHole(Item(t))
                /\ ZoneQueryColliding(Item(z), GetEffectiveHoleShape(Item(t)), cfg.hole)
          /\ DRCE_HOLE_CLEARANCE \notin ReportedKinds

\* the track's copper touches the copper of the free pad on a common layer
TouchesFreePad(t, p) ==
    /\ p.kind = "pad" /\ p.free
    /\ t.layers \cap p.layers # {}
    /\ Collide(GetEffectiveShape(p), GetEffectiveShape(t), 0)

\* the violations the step reports name the track and the pad
StepReportsPair(t, p) ==
    \E i \in (Len(reports) + 1)..Len(reports') : {reports'[i].a, reports'[i].b} = {t, p}

\* a step of the track phase: a pad's recorded net never changes, a pad is
\* claimed only for the net of a track touching it and without a report,
\* and a touching track reported against a free pad is of another net than
\* the one recorded for the pad
FreePadStep ==
    /\ \A p \in DOMAIN freePads : p \in DOMAIN freePads' /\ freePads'[p] = freePads[p]
    /\ \A p \in DOMAIN freePads' \ DOMAIN freePads :
          /\ pc = "track.query"
          /\ TouchesFreePad(CurTrack, Item(p))
          /\ freePads'[p] = CurTrack.net
          /\ reports' = reports
    /\ pc = "track.query" =>
          \A p \in Pads(board) :
              TouchesFreePad(CurTrack, Item(p)) /\ StepReportsPair(CurTrack.id, p)
                  => p \in DOMAIN freePads /\ freePads[p] # CurTrack.net

\* after a run that was not cancelled, with all track errors wanted, no
\* limit and the clearance enforced: every free pad touched by a track of
\* another net has a recorded net, no track of the recorded net touching it
\* is reported against it, and every touching track of another net is
\* reported against it as CLEARANCE
FreePadOutcome ==
    ( /\ Finished /\ cfg.reportAll /\ cfg.limit = NoLimit
      /\ cfg.clr > 0 /\ cfg.clrSev = RPT_SEVERITY_ERROR )
    => \A t \in Tracks(board), p \in Pads(board) :
          TouchesFreePad(Item(t), Item(p)) /\ Item(t).net # Item(p).net
              => /\ p \in DOMAIN freePads
                 /\ IF freePads[p] = Item(t).net
                    THEN \A i \in 1..Len(reports) : {reports[i].a, reports[i].b} # {t, p}
                    ELSE \E l \in Layers : ReportsOf(DRCE_CLEARANCE, t, p, l) # {}

\* C14: during the track phase a free pad is claimed by the net of the
\* first track found touching it, the recorded net never changes, a touching
\* track of the recorded net is not tested against the pad and a touching
\* track of another net is tested and reported like any other collision
C14_FreePadOneNet == []FreePadOutcome /\ [][FreePadStep]_vars

\* a finished run over a board on which tracks of two nets touch one free
\* pad: the pad is recorded for one net and the track of the other net is
\* reported against it
C14_Witness ==
    /\ Finished /\ cfg.reportAll
    /\ \E t, u \in Tracks(board), p \in DOMAIN freePads :
          /\ TouchesFreePad(Item(t), Item(p)) /\ TouchesFreePad(Item(u), Item(p))
          /\ freePads[p] = Item(t).net /\ Item(u).net # Item(t).net
          /\ \A i \in 1..Len(reports) : {reports[i].a, reports[i].b} # {t, p}
          /\ \E l \in Layers : ReportsOf(DRCE_CLEARANCE, u, p, l) # {}

\* every zone-versus-zone violation reported so far belongs to a future the
\* collection loop has consumed, and no two belong to the same future
ZoneReportsFromFutures ==
    \A i \in ZoneReports :
        /\ \E k \in 1..Len(futures) :
              /\ k < ci /\ futures[k].st = "done"
              /\ futures[k].a = reports[i].a /\ futures[k].b = reports[i].b
              /\ futures[k].layer = reports[i].layer
        /\ \A j \in ZoneReports :
              ( /\ {reports[j].a, reports[j].b} = {reports[i].a, reports[i].b}
                /\ reports[j].layer = reports[i].layer ) => j = i

\* a step while testZonesToZones runs: a step of the pool (a task starts or
\* finishes) reports nothing, and a step that reports is a pass of the
\* collection loop that consumes one ready future and reports one violation
ZoneReportStep ==
    /\ futures' # futures => reports' = reports
    /\ (pc \in ZonePcs /\ reports' # reports) =>
          /\ pc = "zones.collect" /\ ci' = ci + 1
          /\ futures[ci].st = "done"
          /\ Len(reports') = Len(reports) + 1

\* C15: no violation is reported from within a zone-pair task; every
\* zone-versus-zone violation is reported by the collection loop, at most
\* one per submitted future
C15_ReportedCentrally == []ZoneReportsFromFutures /\ [][ZoneReportStep]_vars

\* the collection loop has reported a zone pair while another task is
\* still running in the pool
C15_Witness ==
    /\ pc = "zones.collect" /\ ZoneReports # {}
    /\ \E k \in 1..Len(futures) : futures[k].st = "running"

\* C16: once testZonesToZones has returned, no zone-pair task it submitted
\* is still queued or running
C16_ReturnsAfterTasks ==
    pc \notin ZonePcs => \A k \in 1..Len(futures) : futures[k].st = "done"

\* C17: once the cancellation flag is set no step of any phase reports a
\* violation
C17_NoReportAfterCancel == [][ cancelled => reports' = reports ]_vars

\* C18: when the board's maximum clearance is <= 0 Run enters no phase,
\* reports nothing, and returns true
C18_NoConstraintsNoTests ==
    DRCMaxClearance(cfg) <= 0 =>
        /\ pc \in {"run", "done"}
        /\ reports = <<>>
        /\ checkedPairs = <<>> /\ padChecked = {} /\ futures = <<>>
        /\ (pc = "done" => runResult = TRUE)

\* Run has returned for a board with items closer than any positive
\* clearance, whose rules resolve no clearance above 0
C18_Witness ==
    /\ pc = "done" /\ runResult = TRUE
    /\ DRCMaxClearance(cfg) <= 0
    /\ \E a, b \in board :
          /\ a # b
          /\ Item(a).net # Item(b).net
          /\ Item(a).layers \cap Item(b).layers # {}
          /\ Collide(GetEffectiveShape(Item(a)), GetEffectiveShape(Item(b)), 1)

\* C20: in a run that was not cancelled, with all track errors wanted, two
\* tracks that both have net code 0 and are candidates of each other on a
\* layer are handed to the visitor: the pair is in the memo of tested pairs
C20_NetZeroTested ==
    (Finished /\ cfg.reportAll /\ DRCMaxClearance(cfg) > 0) =>
        \A t, u \in Tracks(board) :
            ( /\ t # u
              /\ Item(t).net = 0 /\ Item(u).net = 0
              /\ \E l \in Item(t).layers : u \in Candidates(board, Item(t), l, cfg) )
            => {t, u} \in DOMAIN checkedPairs

\* what testPadAgainstItem reports for the pad against the other item on
\* the layer when no limit is exceeded and the run is not cancelled
PadFinds(p, l, o) ==
    IF l \in Item(p).layers /\ l \in Item(o).layers
    THEN testPadAgainstItem(Item(p), l, Item(o), <<>>, cfg, FALSE).viol
    ELSE <<>>

\* the pair of a pad and another item violates on the layer whichever of the
\* two the query is made for
PairViolatesOn(p, o, l) ==
    /\ PadFinds(p, l, o) # <<>>
    /\ (Item(o).kind = "pad" => PadFinds(o, l, p) # <<>>)

\* the queries hand the pair out on the layer and no test of it, from either
\* side, finds anything to report
PairCleanOn(p, o, l) ==
    /\ o \in Candidates(board, Item(p), l, cfg)
    /\ PadFinds(p, l, o) = <<>>
    /\ (Item(o).kind = "pad" => PadFinds(o, l, p) = <<>>)

\* C21, track phase: when no query of the track phase is ended early and no
\* error is recorded, every candidate of a track on a layer that is not of
\* the track's net is recorded as tested on that layer
C21_TrackLayers ==
    ( /\ Finished /\ DRCMaxClearance(cfg) > 0
      /\ (cfg.reportAll \/ \A i \in 1..Len(reports) : reports[i].b \in ZoneIds) )
    => \A t \in Tracks(board) : \A l \in Item(t).layers :
          \A o \in Candidates(board, Item(t), l, cfg) :
              ~TrackFilterSameNet(Item(t), Item(o))
                  => /\ {t, o} \in DOMAIN checkedPairs
                     /\ l \in checkedPairs[{t, o}].layers

\* C21, pad phase: a pair of a pad and another item that the queries hand
\* out on two layers, that is clean on the first and violates on the second,
\* is reported on the second
C21_PadLayers ==
    (Finished /\ DRCMaxClearance(cfg) > 0 /\ cfg.limit = NoLimit)
    => \A p \in Pads(board), o \in board \ ZoneIds :
          ( /\ p # o
            /\ o \in Candidates(board, Item(p), B_Cu, cfg)
            /\ PairCleanOn(p, o, F_Cu)
            /\ PairViolatesOn(p, o, B_Cu) )
          => \E i \in 1..Len(reports) :
                {reports[i].a, reports[i].b} = {p, o} /\ reports[i].layer = B_Cu

\* C21: the memo of tested pairs is kept per layer in the track phase and in
\* the pad phase: a pair tested on one layer without an error is still
\* tested on every other layer on which the query returns it
C21_MemoPerLayer == C21_TrackLayers /\ C21_PadLayers

\* the violation was found by a distance test against a threshold of at
\* most the required clearance minus the DRC epsilon: its actual distance is
\* below that threshold, or the two shapes overlap
BelowThreshold(v, eps) == v.actual < v.required - eps \/ v.actual = 0

\* the reports of distance tests between an item and an item or a zone
ItemDistanceReports ==
    {i \in 1..Len(reports) :
        /\ reports[i].kind \in {DRCE_CLEARANCE, DRCE_HOLE_CLEARANCE}
        /\ i \notin ZoneReports}

\* C22, items: every CLEARANCE and HOLE_CLEARANCE violation of the track,
\* pad and graphic phases was found below the clearance minus the epsilon
C22_ItemThresholds ==
    \A i \in ItemDistanceReports : BelowThreshold(reports[i], cfg.eps)

\* C22, zones: every CLEARANCE violation between two zones was found below
\* the clearance minus the epsilon
C22_ZoneThresholds ==
    \A i \in ZoneReports :
        reports[i].kind = DRCE_CLEARANCE => BelowThreshold(reports[i], cfg.eps)

\* C22: in every distance test of the provider the threshold is the resolved
\* clearance minus the DRC epsilon, so that no violation is reported at an
\* actual distance of clearance minus epsilon or more
C22_EpsilonEverywhere == C22_ItemThresholds /\ C22_ZoneThresholds

\* some boundary segment of the one fill is closer than clr to some boundary
\* segment of the other
SegmentsCloserThan(zoneA, zoneB, clr) ==
    \E i \in DOMAIN PolySegments(zoneA), j \in DOMAIN PolySegments(zoneB) :
        GetClearanceBetweenSegments(PolySegments(zoneB)[j], PolySegments(zoneA)[i]) < clr

\* C23: after a run that was not cancelled, with no error limit and no
\* racing lookup, the task of every submitted zone pair whose fills have
\* boundary segments closer than the pair's clearance has returned a valid
\* result: the early exit of the sweep has dropped no such pair of segments
C23_SweepLosesNothing ==
    (Finished /\ cfg.limit = NoLimit /\ NoLookupRaced)
    => \A k \in 1..Len(futures) :
          SegmentsCloserThan(Item(futures[k].a), Item(futures[k].b), futures[k].clr)
              => futures[k].res.valid

\* C24, items and knockout text against zones: an item whose inflated
\* bounding box misses the zone's has neither its copper nor its hole within
\* the resolved clearance of the zone's fill
C24_ItemZoneFilter ==
    \A i \in board \ ZoneIds, z \in ZoneIds :
        ~WorstCaseBBoxHits(Item(i), Item(z), cfg)
            => /\ ~ZoneQueryColliding(Item(z), GetEffectiveShape(Item(i)), cfg.clr)
               /\ HasHole(Item(i))
                    => ~ZoneQueryColliding(Item(z), GetEffectiveHoleShape(Item(i)), cfg.hole)

\* C24, zones: after a run that was not cancelled, with no error limit and
\* the clearance enforced, every pair of zones of different nets whose fills
\* are closer than the clearance on a common layer was handed to a task
C24_ZonePairFilter ==
    ( /\ Finished /\ cfg.limit = NoLimit
      /\ cfg.clr > 0 /\ cfg.clrSev # RPT_SEVERITY_IGNORE )
    => \A a, b \in ZoneIds : \A l \in Item(a).layers \cap Item(b).layers :
          ( /\ a < b
            /\ Item(a).net # Item(b).net
            /\ (FillsOverlap(Item(a), Item(b)) \/ SegmentsCloserThan(Item(a), Item(b), cfg.clr)) )
          => \E k \in 1..Len(futures) :
                futures[k].a = a /\ futures[k].b = b /\ futures[k].layer = l

\* C24: no bounding-box pre-filter skips a pair that is closer than its
\* required clearance: not the one of the item-versus-zone test, not the one
\* of the knockout-text test and not the one that decides whether a zone
\* pair is submitted
C24_NoBBoxFalseNegative == C24_ItemZoneFilter /\ C24_ZonePairFilter

\* where Run is: 0 before the first phase, the odd numbers at the limit
\* tests and the reportPhase before the track, pad, graphic and zone phase,
\* the even numbers inside those phases, 9 after the last phase, 10 returned
RunStage(p) ==
    CASE p = "run" -> 0
      [] p = "run.track" -> 1
      [] p \in {"track", "track.query", "track.zones"} -> 2
      [] p = "run.pad" -> 3
      [] p \in {"pad", "pad.query", "pad.zones"} -> 4
      [] p = "run.graphic" -> 5
      [] p \in {"graphic", "graphic.zones"} -> 6
      [] p = "run.zones" -> 7
      [] p \in ZonePcs -> 8
      [] p = "run.end" -> 9
      [] p = "done" -> 10

\* a step of Run on a board with clearance constraints: Run never goes back
\* to an earlier phase; a phase is entered only from its own reportPhase and
\* only when the run is not cancelled; when the run is cancelled at the
\* reportPhase of a phase that phase is not entered, and a return from there
\* is a return of false; the return after the last phase is a return of
\* "not cancelled"; and Run returns from nowhere else
RunOrderStep ==
    /\ RunStage(pc') >= RunStage(pc)
    /\ (RunStage(pc') \in {2, 4, 6, 8} /\ RunStage(pc') # RunStage(pc))
          => RunStage(pc) = RunStage(pc') - 1 /\ ~cancelled
    /\ (RunStage(pc) \in {1, 3, 5, 7} /\ pc' # pc)
          => IF pc' = "done"
             THEN cancelled /\ runResult' = FALSE
             ELSE RunStage(pc') \in {RunStage(pc) + 1, RunStage(pc) + 2}
    /\ (pc = "run.end" /\ pc' # pc) => pc' = "done" /\ runResult' = ~cancelled
    /\ (pc' = "done" /\ pc # "done") => RunStage(pc) \in {0, 1, 3, 5, 7, 9}
    /\ (pc' = "done" /\ pc = "run") => NoClearanceConstraints(cfg)
    /\ pc # "done" => runResult = "none"

\* C25: on a board with clearance constraints Run executes the track, pad,
\* graphic and zone phases in this order, each at most once; when reportPhase
\* returns false for a phase Run returns false at once, without that phase
\* and the later ones; otherwise it returns true exactly when the engine is
\* not cancelled after the last phase
C25_PhaseOrder == [][RunOrderStep]_vars

\* Run has returned false at the reportPhase of the pad phase: the track
\* phase has tested a pair, and the pad phase, which has a pad with a
\* candidate to test, has tested none
C25_Witness ==
    /\ pc = "done" /\ runResult = FALSE
    /\ checkedPairs # <<>>
    /\ padChecked = {}
    /\ \E p \in Pads(board) : \E l \in Item(p).layers :
          Candidates(board, Item(p), l, cfg) # {}

-----------------------------------------------------------------------------
(* The worker loops of createLayers (checked under SpecLayers)             *)

\* the work items of the job
WorkItems == 0..(job.n - 1)

\* C26: with N work items and T = min(N, max(hardware concurrency, 2))
\* threads, every index below N is claimed by at most one thread at any
\* time and by exactly one once the orchestrator has left its polling
\* loop; the orchestrator leaves only after all T threads have incremented
\* threadsFinished, hence with every item processed exactly once and no
\* lock held; with N = 0 no thread exists and the polling loop's condition
\* is false at once.
C26_WorkersClaimOnce ==
    /\ job.threads = Min2(job.n, Max2(job.hw, 2))
    /\ DOMAIN thr = 1..job.threads
    /\ \A i \in WorkItems : Len(claimedBy[i]) <= 1 /\ processed[i] <= Len(claimedBy[i])
    /\ threadsFinished = Cardinality({t \in DOMAIN thr : thr[t].st = "finished"})
    /\ lpc = "left" =>
          /\ threadsFinished = job.threads
          /\ \A t \in DOMAIN thr : thr[t].st = "finished"
          /\ \A i \in WorkItems : Len(claimedBy[i]) = 1 /\ processed[i] = 1
          /\ locks = {}
    /\ job.n = 0 =>
          /\ job.threads = 0 /\ spawned = 0 /\ thr = <<>>
          /\ ~StillPolling(threadsFinished, job.threads)

\* the orchestrator has left after two threads shared three locked zone items
C26_Witness ==
    /\ lpc = "left"
    /\ job.kind = "zones" /\ job.poly
    /\ job.n = 3 /\ job.threads >= 2
    /\ \E i, j \in WorkItems : claimedBy[i] # claimedBy[j]
    /\ \A i \in WorkItems : processed[i] = 1

\* the orchestrator has left a job without work items
C26_WitnessEmpty == lpc = "left" /\ job.n = 0 /\ spawned = 0

\* C27: while a submitted task is queued or running, the orchestrating
\* thread writes no poly_segments entry of a zone that the task reads: it
\* is never about to insert, fill and sort an entry of one of the task's
\* two zones.
C27_BuiltBeforeRead ==
    pc = "zones.insert" =>
        \A k \in 1..Len(futures) :
            futures[k].st \in {"queued", "running"} =>
                ZoneAt(zi).id \notin {futures[k].a, futures[k].b}

\* what testTrackAgainstItem reports for the track and the item on the layer
TrackFinds(t, l, y) == testTrackAgainstItem(Item(t), l, Item(y), <<>>, cfg).viol

\* C28: with 'report all track errors' disabled, in a run without limits
\* that is not cancelled, every candidate of a track on a layer that passes
\* the filter's net test, is no free pad, and violates against the track on
\* that layer (from either side when it is a track itself) is reported with
\* the track, also when the track has a violation with another item on that
\* layer.
C28_OtherCandidatesTested ==
    (Finished /\ ~cfg.reportAll /\ cfg.limit = NoLimit /\ DRCMaxClearance(cfg) > 0)
    => \A t \in Tracks(board) : \A l \in Item(t).layers :
          \A y \in Candidates(board, Item(t), l, cfg) :
              ( /\ ~TrackFilterSameNet(Item(t), Item(y))
                /\ ~(Item(y).kind = "pad" /\ Item(y).free)
                /\ TrackFinds(t, l, y) # <<>>
                /\ (IsTrack(Item(y)) => TrackFinds(y, l, t) # <<>>) )
              => \E i \in 1..Len(reports) : {reports[i].a, reports[i].b} = {t, y}

\* C29: in the pad phase a visited candidate ends the pad's spatial query
\* only when the run is cancelled: a step of the query of a run that is
\* not cancelled takes at most the visited candidate from the candidates
\* still to visit.
C29_PadQueryStopsOnCancelOnly ==
    [][(pc = "pad.query" /\ ~cancelled) => Cardinality(cands \ cands') <= 1]_vars

\* the reports of the track phase's spatial queries: a track against an item
\* that is no zone
TrackItemReports ==
    {i \in 1..Len(reports) : reports[i].a \in Tracks(board) /\ reports[i].b \notin ZoneIds}

\* the pair's entry of the track phase's memo
MemoOf(chk, key) == IF key \in DOMAIN chk THEN chk[key] ELSE NoLayersChecked

\* without 'report all track errors' a pair of the track phase's queries is
\* reported at most once over all layers and has its error recorded
OneReportPerPair ==
    ~cfg.reportAll =>
        /\ \A i, j \in TrackItemReports :
              {reports[i].a, reports[i].b} = {reports[j].a, reports[j].b} => i = j
        /\ \A i \in TrackItemReports :
              MemoOf(checkedPairs, {reports[i].a, reports[i].b}).has_error

\* the memo only grows, and a query step that reports tests a pair on a layer
\* it was not tested on before; without 'report all track errors' the pair
\* had no error before, and one violation is reported
TrackTestStep ==
    /\ \A key \in DOMAIN checkedPairs :
          /\ key \in DOMAIN checkedPairs'
          /\ checkedPairs[key].layers \subseteq checkedPairs'[key].layers
          /\ checkedPairs[key].has_error => checkedPairs'[key].has_error
    /\ (pc = "track.query" /\ reports' # reports) =>
          LET new == reports'[Len(reports) + 1]
              key == {new.a, new.b}
          IN  /\ new.layer \notin MemoOf(checkedPairs, key).layers
              /\ new.layer \in MemoOf(checkedPairs', key).layers
              /\ \A i \in (Len(reports) + 1)..Len(reports') :
                    {reports'[i].a, reports'[i].b} = key /\ reports'[i].layer = new.layer
              /\ ~cfg.reportAll =>
                    /\ ~MemoOf(checkedPairs, key).has_error
                    /\ MemoOf(checkedPairs', key).has_error
                    /\ Len(reports') = Len(reports) + 1

C30_WitnessReportAll ==
    /\ Finished /\ cfg.reportAll
    /\ \E i, j \in TrackItemReports :
          /\ {reports[i].a, reports[i].b} = {reports[j].a, reports[j].b}
          /\ reports[i].layer # reports[j].layer

====
